---- MODULE Spec2Model ----
(***************************************************************************)
(* Model of the monitoring core of the fraud detection service:            *)
(*   utils/monitoring.py  ModelMonitor (prediction log, metrics history)   *)
(*   api.py               /predict, /feedback and their background tasks   *)
(*                                                                         *)
(* The prediction log prediction_logs.jsonl is a sequence of text lines.   *)
(* A line is the JSON text of one log entry; an entry in memory is a       *)
(* Python dict, kept here as the sequence of its (key, value) pairs in     *)
(* insertion order.  Python values and JSON values are different tagged    *)
(* records, so json.dumps and json.loads are real conversions.             *)
(***************************************************************************)
EXTENDS Integers, Sequences, FiniteSets, TLC

VARIABLES
    now,          \* the wall clock read by datetime.now()
    config,       \* ModelMonitor.config, fixed at construction
    logExists,    \* prediction_logs.jsonl exists
    logFile,      \* its lines, oldest first
    metricsFile,  \* performance_metrics.json: the list of Metrics Snapshots
    logger,       \* the messages the most recent call handed to the logger
    uuids,        \* how many uuid4 values /predict has drawn
    tasks,        \* background tasks of the serving layer not yet finished
    response,     \* the HTTP response of the most recent request
    appended,     \* history: rows the finished log_predictions tasks wrote
    acked,        \* history: (prediction_id, label) of the feedback tasks that
                  \* reported "Updated prediction log with feedback"
    driftFile,    \* drift_metrics.json: the list of Drift Reports
    result        \* what the most recent direct call of
                  \* calculate_performance_metrics, _check_metric_alerts or
                  \* detect_data_drift returned or raised

vars == <<now, config, logExists, logFile, metricsFile, logger, uuids, tasks,
          response, appended, acked, driftFile, result>>

\* what only the metrics and drift calls made directly by a caller change
analysis == <<driftFile, result>>

\* what the library calls of ModelMonitor leave alone
serving == <<uuids, tasks, response, appended, acked>>

----------------------------------------------------------------------------
(* Bounds of the model.                                                    *)

MaxLog == 2          \* lines the prediction log may hold
DayLength == 2       \* clock readings that fall on one calendar day
MaxMetrics == 1      \* snapshots the metrics history may hold
MaxSnapshots == 2    \* the same, when the monitor is called directly
MaxSamples == 3      \* rows of a dataset handed to ModelEvaluator.evaluate
MaxDrift == 2        \* reports the drift history may hold
MaxLimit == 2        \* largest limit passed to get_recent_predictions
MaxTasks == 2        \* background tasks in flight
MaxUuid == 2         \* uuid4 values drawn
MaxFeedback == 2     \* feedback tasks that report an update

----------------------------------------------------------------------------
(* Strings.  A string is a triple: what kind of text it is and up to two   *)
(* numbers that the text spells out.                                       *)

Str(kind, a, b) == <<kind, a, b>>
NoStr == Str("", 0, 0)

\* the readings the wall clock takes, in order
Instants == {0, 1}

\* datetime.now().isoformat()
isoformat(t) == Str("iso", t, 0)

\* datetime.now().strftime('%Y%m%d')
strftime_Ymd(t) == t \div DayLength

\* an id made of the date alone
GeneratedIdOfDate(t, i) == Str("pred", strftime_Ymd(t), 0)

\* an id whose ordinal starts at the clock reading instead of zero
GeneratedIdOfInstant(t, i) == Str("pred", strftime_Ymd(t), t + i)

\* f"pred_{datetime.now().strftime('%Y%m%d')}_{i}"
GeneratedId(t, i) == Str("pred", strftime_Ymd(t), i)

\* str(uuid.uuid4()): the k-th value drawn differs from all others
Uuid4(k) == Str("uuid", k, 0)

----------------------------------------------------------------------------
(* Python values.                                                          *)

PyNone == [t |-> "none", n |-> 0, s |-> NoStr, d |-> <<>>]
PyInt(n) == [t |-> "int", n |-> n, s |-> NoStr, d |-> <<>>]
PyFloat(n) == [t |-> "float", n |-> n, s |-> NoStr, d |-> <<>>]
PyStr(s) == [t |-> "str", n |-> 0, s |-> s, d |-> <<>>]
PyDict(items) == [t |-> "dict", n |-> 0, s |-> NoStr, d |-> items]

IsNumber(v) == v.t \in {"int", "float"}

\* Python's ==: numbers compare by value (0 == 0.0), everything else by
\* type and content.
PyEq(a, b) ==
    IF IsNumber(a) /\ IsNumber(b) THEN a.n = b.n ELSE a = b

\* bool(v) as used by `if metadata:`
Truthy(v) ==
    CASE v.t = "none" -> FALSE
      [] v.t = "dict" -> Len(v.d) > 0
      [] v.t \in {"int", "float"} -> v.n # 0
      [] OTHER -> TRUE

\* float(x) for a number x
ToFloat(v) == PyFloat(v.n)

\* str(x): a str is itself, a number becomes its decimal text
ToStr(v) ==
    CASE v.t = "str" -> v
      [] v.t = "int" -> PyStr(Str("digits", v.n, 0))
      [] v.t = "float" -> PyStr(Str("digits.0", v.n, 0))
      [] OTHER -> PyStr(Str("repr", 0, 0))

----------------------------------------------------------------------------
(* Sequences.                                                              *)

\* the sequence of Op(x) for the elements x of seq, in order
Map(seq, Op(_)) ==
    LET F[i \in 0..Len(seq)] ==
            IF i = 0 THEN <<>> ELSE Append(F[i - 1], Op(seq[i]))
    IN  F[Len(seq)]

\* the elements of seq that satisfy P, in order
Filter(seq, P(_)) ==
    LET F[i \in 0..Len(seq)] ==
            IF i = 0 THEN <<>>
            ELSE IF P(seq[i]) THEN Append(F[i - 1], seq[i]) ELSE F[i - 1]
    IN  F[Len(seq)]

\* the indices 1..n as a sequence
Indices(n) ==
    LET F[i \in 0..n] == IF i = 0 THEN <<>> ELSE Append(F[i - 1], i)
    IN  F[n]

----------------------------------------------------------------------------
(* Python dicts as sequences of (key, value) pairs.                        *)

DictHas(e, k) == \E i \in 1..Len(e) : e[i][1] = k

DictIndex(e, k) == CHOOSE i \in 1..Len(e) : e[i][1] = k

\* e.get(k): None when the key is absent
DictGet(e, k) == IF DictHas(e, k) THEN e[DictIndex(e, k)][2] ELSE PyNone

\* e[k] = v: in place when the key exists, at the end otherwise
DictSet(e, k, v) ==
    IF DictHas(e, k)
    THEN Map(e, LAMBDA kv : IF kv[1] = k THEN <<k, v>> ELSE kv)
    ELSE Append(e, <<k, v>>)

----------------------------------------------------------------------------
(* JSON text.                                                              *)

JNull == [t |-> "null", n |-> 0, frac |-> FALSE, s |-> NoStr, d |-> <<>>]
JNumber(n, frac) == [t |-> "number", n |-> n, frac |-> frac, s |-> NoStr, d |-> <<>>]
JString(s) == [t |-> "string", n |-> 0, frac |-> FALSE, s |-> s, d |-> <<>>]
JObject(members) == [t |-> "object", n |-> 0, frac |-> FALSE, s |-> NoStr, d |-> members]

\* json.dumps of a scalar: None is null, an int is digits, a float always
\* carries a fraction part (repr(1.0) is "1.0"), a str is quoted.
dumps_scalar(v) ==
    CASE v.t = "none" -> JNull
      [] v.t = "int" -> JNumber(v.n, FALSE)
      [] v.t = "float" -> JNumber(v.n, TRUE)
      [] OTHER -> JString(v.s)

dumps_value(v) ==
    IF v.t = "dict"
    THEN JObject(Map(v.d, LAMBDA kv : <<kv[1], dumps_scalar(kv[2])>>))
    ELSE dumps_scalar(v)

\* json.loads of a scalar: digits without a fraction part are an int
loads_scalar(j) ==
    CASE j.t = "null" -> PyNone
      [] j.t = "number" -> IF j.frac THEN PyFloat(j.n) ELSE PyInt(j.n)
      [] OTHER -> PyStr(j.s)

loads_value(j) ==
    IF j.t = "object"
    THEN PyDict(Map(j.d, LAMBDA kv : <<kv[1], loads_scalar(kv[2])>>))
    ELSE loads_scalar(j)

\* json.dumps(log_entry) + "\n": one line of the log
json_dumps(entry) ==
    [ok |-> TRUE,
     members |-> Map(entry, LAMBDA kv : <<kv[1], dumps_value(kv[2])>>)]

\* json.loads(line) raises on a line that is not JSON
loads_raises(line) == ~line.ok

json_loads(line) ==
    Map(line.members, LAMBDA kv : <<kv[1], loads_value(kv[2])>>)

----------------------------------------------------------------------------
(* ModelMonitor: the prediction log.                                       *)

\* a log entry that carries metadata whenever it is not None
LogEntryNotNone(prediction_id, features, prediction, probability, true_label, metadata, t) ==
    LET base == << <<"prediction_id", prediction_id>>,
                   <<"timestamp", PyStr(isoformat(t))>>,
                   <<"prediction", prediction>>,
                   <<"probability", probability>>,
                   <<"true_label", true_label>>,
                   <<"features", features>> >>
    IN  IF metadata # PyNone THEN Append(base, <<"metadata", metadata>>) ELSE base

\* the log entry log_prediction builds
LogEntry(prediction_id, features, prediction, probability, true_label, metadata, t) ==
    LET base == << <<"prediction_id", prediction_id>>,
                   <<"timestamp", PyStr(isoformat(t))>>,
                   <<"prediction", prediction>>,
                   <<"probability", probability>>,
                   <<"true_label", true_label>>,
                   <<"features", features>> >>
    IN  IF Truthy(metadata) THEN Append(base, <<"metadata", metadata>>) ELSE base

\* a write that puts the new lines in front of the existing ones
PrependLines(file, lines) == lines \o file

\* open(log_path, "a"); f.write(...): the lines land after the existing ones
AppendLines(file, lines) == file \o lines

\* ModelMonitor.log_prediction
log_prediction(prediction_id, features, prediction, probability, true_label, metadata) ==
    /\ IF ~config.enable_monitoring
       THEN UNCHANGED <<logExists, logFile>>
       ELSE /\ Len(logFile) < MaxLog
            /\ logExists' = TRUE
            /\ logFile' = AppendLines(logFile,
                   << json_dumps(LogEntry(prediction_id, features, prediction,
                                          probability, true_label, metadata, now)) >>)
    /\ logger' = <<>>
    /\ UNCHANGED <<now, config, analysis, metricsFile, serving>>

\* the arguments callers hand to log_prediction
LogPredictionInputs ==
    { [prediction_id |-> PyStr(Str("txn", 1, 0)),
       features |-> PyDict(<< <<"feature1", PyInt(1)>>, <<"feature2", PyInt(2)>> >>),
       prediction |-> PyInt(0), probability |-> PyFloat(0),
       true_label |-> PyInt(0), metadata |-> PyNone],
      [prediction_id |-> PyStr(Str("txn", 2, 0)),
       features |-> PyDict(<< <<"amount", PyFloat(150)>>, <<"merchant", PyStr(Str("shop", 0, 0))>> >>),
       prediction |-> PyInt(1), probability |-> PyNone,
       true_label |-> PyNone, metadata |-> PyDict(<< <<"source", PyStr(Str("api", 0, 0))>> >>)],
      [prediction_id |-> PyStr(Str("txn", 1, 0)),
       features |-> PyDict(<<>>),
       prediction |-> PyFloat(1), probability |-> PyNone,
       true_label |-> PyNone, metadata |-> PyDict(<<>>)] }

----------------------------------------------------------------------------
(* ModelMonitor.log_batch_predictions.  A DataFrame is the sequence of its *)
(* rows, a row the (column, value) pairs of its cells.  An absent optional *)
(* column name (None) is the empty string.                                 *)

NoCol == ""

\* the prediction_id column the method adds when the caller names none
WithGeneratedIds(df, t) ==
    Map(Indices(Len(df)),
        LAMBDA i : DictSet(df[i], "prediction_id", PyStr(GeneratedId(t, i - 1))))

\* {col: row[col] for col in features_cols if col in row}
RowFeatures(row, features_cols) ==
    PyDict(Map(Filter(features_cols, LAMBDA col : DictHas(row, col)),
               LAMBDA col : <<col, DictGet(row, col)>>))

\* the log entry built for one row
BatchEntry(row, features_cols, prediction_col, probability_col, true_label_col, id_col, t) ==
    LET e1 == << <<"prediction_id", ToStr(DictGet(row, id_col))>>,
                 <<"timestamp", PyStr(isoformat(t))>>,
                 <<"prediction", IF DictHas(row, prediction_col)
                                 THEN ToFloat(DictGet(row, prediction_col)) ELSE PyNone>>,
                 <<"features", RowFeatures(row, features_cols)>> >>
        e2 == IF probability_col # NoCol /\ DictHas(row, probability_col)
              THEN Append(e1, <<"probability", ToFloat(DictGet(row, probability_col))>>)
              ELSE e1
    IN  IF true_label_col # NoCol /\ DictHas(row, true_label_col)
        THEN Append(e2, <<"true_label", ToFloat(DictGet(row, true_label_col))>>)
        ELSE e2

\* the lines one log_batch_predictions call writes; every row is stamped
\* with the clock reading t of the call
BatchLines(predictions_df, features_cols, prediction_col, probability_col, true_label_col, id_col, t) ==
    LET generate == id_col = NoCol \/ (Len(predictions_df) > 0 /\ ~DictHas(predictions_df[1], id_col))
        df == IF generate THEN WithGeneratedIds(predictions_df, t) ELSE predictions_df
        idc == IF generate THEN "prediction_id" ELSE id_col
    IN  Map(df, LAMBDA row :
            json_dumps(BatchEntry(row, features_cols, prediction_col,
                                  probability_col, true_label_col, idc, t)))

\* ModelMonitor.log_batch_predictions
log_batch_predictions(predictions_df, features_cols, prediction_col, probability_col, true_label_col, id_col) ==
    /\ IF ~config.enable_monitoring
       THEN UNCHANGED <<logExists, logFile>> /\ logger' = <<>>
       ELSE /\ Len(logFile) + Len(predictions_df) <= MaxLog
            /\ logExists' = TRUE
            /\ logFile' = AppendLines(logFile,
                   BatchLines(predictions_df, features_cols, prediction_col,
                              probability_col, true_label_col, id_col, now))
            /\ logger' = << <<"info", "Logged predictions", <<>> >> >>
    /\ UNCHANGED <<now, config, analysis, metricsFile, serving>>

\* the tables callers hand to log_batch_predictions
BatchInputs ==
    { [predictions_df |-> << << <<"amount", PyFloat(150)>>, <<"prediction", PyFloat(1)>> >>,
                             << <<"amount", PyFloat(20)>>, <<"prediction", PyFloat(0)>> >> >>,
       features_cols |-> <<"amount">>, prediction_col |-> "prediction",
       probability_col |-> NoCol, true_label_col |-> NoCol, id_col |-> NoCol],
      [predictions_df |-> << << <<"txn", PyInt(7)>>, <<"amount", PyFloat(20)>>,
                                <<"prediction", PyInt(1)>>, <<"is_fraud", PyInt(0)>> >> >>,
       features_cols |-> <<"amount", "country">>, prediction_col |-> "prediction",
       probability_col |-> NoCol, true_label_col |-> "is_fraud", id_col |-> "txn"] }

----------------------------------------------------------------------------
(* ModelMonitor.calculate_performance_metrics and _check_metric_alerts.    *)
(* A metric value is the fraction <<numerator, denominator>> it is         *)
(* computed as; zero_division=0 gives <<0, 1>>.                            *)

NoTime == -1

Ratio(num, den) == IF den = 0 THEN <<0, 1>> ELSE <<num, den>>

Less(a, b) == a[1] * b[2] < b[1] * a[2]

Count(seq, P(_)) == Cardinality({i \in 1..Len(seq) : P(seq[i])})

\* datetime.fromisoformat(log["timestamp"])
fromisoformat(v) == v.s[2]

\* the records the metrics are computed from
InWindow(log, start_time, end_time) ==
    LET log_time == fromisoformat(DictGet(log, "timestamp"))
    IN  /\ ~(start_time # NoTime /\ log_time < start_time)
        /\ ~(end_time # NoTime /\ log_time > end_time)

HasLabel(log) ==
    /\ DictHas(log, "prediction")
    /\ DictHas(log, "true_label")
    /\ DictGet(log, "true_label") # PyNone

Used(log, start_time, end_time) == InWindow(log, start_time, end_time) /\ HasLabel(log)

\* alert_threshold of the default configuration
alert_threshold == << <<"precision", <<4, 5>> >>, <<"recall", <<4, 5>> >>, <<"f1", <<4, 5>> >> >>

\* the lists predictions and true_labels, as one list of pairs
Labelled(logs, start_time, end_time) ==
    Map(Filter(logs, LAMBDA l : Used(l, start_time, end_time)),
        LAMBDA l : <<DictGet(l, "prediction").n, DictGet(l, "true_label").n>>)

\* the metrics dict before its timestamp is attached
Scores(pairs) ==
    LET tp == Count(pairs, LAMBDA p : p[1] = 1 /\ p[2] = 1)
        fp == Count(pairs, LAMBDA p : p[1] = 1 /\ p[2] # 1)
        fn == Count(pairs, LAMBDA p : p[1] # 1 /\ p[2] = 1)
    IN  << <<"count", <<Len(pairs), 1>> >>,
           <<"accuracy", Ratio(Count(pairs, LAMBDA p : p[1] = p[2]), Len(pairs))>>,
           <<"precision", Ratio(tp, tp + fp)>>,
           <<"recall", Ratio(tp, tp + fn)>>,
           <<"f1", Ratio(2 * tp, 2 * tp + fp + fn)>> >>

Metrics(logs, start_time, end_time) == Scores(Labelled(logs, start_time, end_time))

\* A value of a metrics dict is a number, kept as a fraction, or a text
\* (the timestamp), kept as a string.
IsText(v) == Len(v) = 3

\* metrics[metric] < threshold raises TypeError when the value is a str
check_metric_alerts_raises(metrics) ==
    \E k \in 1..Len(config.alert_threshold) :
       /\ DictHas(metrics, config.alert_threshold[k][1])
       /\ IsText(DictGet(metrics, config.alert_threshold[k][1]))

\* advisories for every metric whose value is at or below its threshold
check_metric_alerts_at_or_below(metrics) ==
    Map(Filter(config.alert_threshold,
               LAMBDA mt : DictHas(metrics, mt[1]) /\ ~Less(mt[2], DictGet(metrics, mt[1]))),
        LAMBDA mt : mt[1])

\* _check_metric_alerts: the advisories for a metrics dict, by metric name
check_metric_alerts(metrics) ==
    Map(Filter(config.alert_threshold,
               LAMBDA mt : DictHas(metrics, mt[1]) /\ Less(DictGet(metrics, mt[1]), mt[2])),
        LAMBDA mt : mt[1])

\* a save that writes the new snapshot over the history
CalculatedOverwrites(m, history) ==
    [raised |-> check_metric_alerts_raises(m),
     metrics |-> IF check_metric_alerts_raises(m) THEN <<>> ELSE m,
     history |-> <<m>>,
     logged |-> << <<"info", "Calculated performance metrics", <<>> >> >>]

\* One call of calculate_performance_metrics on the log `file`:
\*   raised   json.loads failed on a line, or _check_metric_alerts raised
\*   metrics  the dict returned ({} is <<>>)
\*   history  performance_metrics.json afterwards
\*   logged   the logger messages of the call
\* The snapshot is saved and logged before the alerts are checked.
Calculated(m, history) ==
    [raised |-> check_metric_alerts_raises(m),
     metrics |-> IF check_metric_alerts_raises(m) THEN <<>> ELSE m,
     history |-> Append(history, m),
     logged |-> << <<"info", "Calculated performance metrics", <<>> >> >>
                \o IF check_metric_alerts_raises(m) \/ check_metric_alerts(m) = <<>>
                   THEN <<>>
                   ELSE << <<"warning", "Performance alerts", check_metric_alerts(m)>> >>]

\* a calculation that scores whatever it is given, an empty list included
FromLabelledUnguarded(pairs, history, t) ==
    Calculated(Append(Scores(pairs), <<"timestamp", isoformat(t)>>), history)

FromLabelled(pairs, history, t) ==
    IF pairs = <<>>
    THEN [raised |-> FALSE, metrics |-> <<>>, history |-> history,
          logged |-> << <<"warning", "No labeled data found", <<>> >> >>]
    ELSE Calculated(Append(Scores(pairs), <<"timestamp", isoformat(t)>>), history)

calculate_performance_metrics(exists, file, history, start_time, end_time, t) ==
    LET none == [raised |-> FALSE, metrics |-> <<>>, history |-> history, logged |-> <<>>]
    IN  IF ~config.enable_monitoring THEN none
        ELSE IF ~exists
        THEN [none EXCEPT !.logged = << <<"warning", "No prediction logs found", <<>> >> >>]
        ELSE IF \E i \in 1..Len(file) : loads_raises(file[i])
        THEN [none EXCEPT !.raised = TRUE]
        ELSE FromLabelled(Labelled(Map(file, json_loads), start_time, end_time),
                          history, t)

----------------------------------------------------------------------------
(* api.process_feedback.                                                   *)

\* a read loop that reports an update whether or not an entry matches
FeedbackScanAlwaysUpdated(file, prediction_id, actual_label) ==
    LET Match(e) == PyEq(DictGet(e, "prediction_id"), PyStr(prediction_id))
        entries == Map(file, json_loads)
    IN  [raised |-> \E i \in 1..Len(file) : loads_raises(file[i]),
         updated |-> TRUE,
         logs |-> Map(entries, LAMBDA e :
                      IF Match(e)
                      THEN DictSet(e, "true_label", PyInt(actual_label))
                      ELSE e)]

\* a read loop that labels a matching entry only while it has no label
FeedbackScanKeepsLabel(file, prediction_id, actual_label) ==
    LET Match(e) == PyEq(DictGet(e, "prediction_id"), PyStr(prediction_id))
        entries == Map(file, json_loads)
    IN  [raised |-> \E i \in 1..Len(file) : loads_raises(file[i]),
         updated |-> \E i \in 1..Len(entries) : Match(entries[i]),
         logs |-> Map(entries, LAMBDA e :
                      IF Match(e) /\ DictGet(e, "true_label") = PyNone
                      THEN DictSet(e, "true_label", PyInt(actual_label))
                      ELSE e)]

\* a read loop that stores the label under "prediction"
FeedbackScanWrongKey(file, prediction_id, actual_label) ==
    LET Match(e) == PyEq(DictGet(e, "prediction_id"), PyStr(prediction_id))
        entries == Map(file, json_loads)
    IN  [raised |-> \E i \in 1..Len(file) : loads_raises(file[i]),
         updated |-> \E i \in 1..Len(entries) : Match(entries[i]),
         logs |-> Map(entries, LAMBDA e :
                      IF Match(e)
                      THEN DictSet(e, "prediction", PyInt(actual_label))
                      ELSE e)]

\* a read loop that labels every entry once one entry matches
FeedbackScanLabelsAll(file, prediction_id, actual_label) ==
    LET Match(e) == PyEq(DictGet(e, "prediction_id"), PyStr(prediction_id))
        entries == Map(file, json_loads)
        updated == \E i \in 1..Len(entries) : Match(entries[i])
    IN  [raised |-> \E i \in 1..Len(file) : loads_raises(file[i]),
         updated |-> updated,
         logs |-> Map(entries, LAMBDA e :
                      IF updated
                      THEN DictSet(e, "true_label", PyInt(actual_label))
                      ELSE e)]

\* the read loop: every line is parsed, every entry whose prediction_id
\* equals the submitted one gets the label
\* a read loop that skips the lines json.loads rejects
FeedbackScanSkipsMalformed(file, prediction_id, actual_label) ==
    LET Match(e) == PyEq(DictGet(e, "prediction_id"), PyStr(prediction_id))
        entries == Map(Filter(file, LAMBDA line : ~loads_raises(line)), json_loads)
    IN  [raised |-> FALSE,
         updated |-> \E i \in 1..Len(entries) : Match(entries[i]),
         logs |-> Map(entries, LAMBDA e :
                      IF Match(e)
                      THEN DictSet(e, "true_label", PyInt(actual_label))
                      ELSE e)]

FeedbackScan(file, prediction_id, actual_label) ==
    LET Match(e) == PyEq(DictGet(e, "prediction_id"), PyStr(prediction_id))
        entries == Map(file, json_loads)
    IN  [raised |-> \E i \in 1..Len(file) : loads_raises(file[i]),
         updated |-> \E i \in 1..Len(entries) : Match(entries[i]),
         logs |-> Map(entries, LAMBDA e :
                      IF Match(e)
                      THEN DictSet(e, "true_label", PyInt(actual_label))
                      ELSE e)]

\* the write loop: open(log_path, "w") and one line per entry
FeedbackRewrite(logs) == Map(logs, json_dumps)

\* a process_feedback that computes the metrics from the log as it was
\* read, before the rewrite
process_feedback_scores_first(prediction_id, actual_label) ==
    LET error == << <<"error", "Error processing feedback", <<>> >> >>
        done == << <<"info", "Updated prediction log with feedback", <<>> >> >>
    IN  /\ UNCHANGED <<now, config, analysis, logExists, serving>>
        /\ \E scan \in {FeedbackScan(logFile, prediction_id, actual_label)} :
             IF ~logExists \/ scan.raised
             THEN /\ logger' = error
                  /\ UNCHANGED <<logFile, metricsFile>>
             ELSE IF ~scan.updated
             THEN /\ logger' = << <<"warning", "No prediction found", <<>> >> >>
                  /\ UNCHANGED <<logFile, metricsFile>>
             ELSE /\ logFile' = FeedbackRewrite(scan.logs)
                  /\ IF ~config.performance_tracking
                     THEN logger' = done /\ UNCHANGED metricsFile
                     ELSE \E calc \in {calculate_performance_metrics(
                                           TRUE, logFile, metricsFile, NoTime, NoTime, now)} :
                          /\ Len(calc.history) <= MaxMetrics
                          /\ metricsFile' = calc.history
                          /\ logger' = done \o calc.logged
                                        \o IF calc.raised THEN error ELSE <<>>

\* process_feedback run from its first statement to its return
process_feedback(prediction_id, actual_label) ==
    LET error == << <<"error", "Error processing feedback", <<>> >> >>
        done == << <<"info", "Updated prediction log with feedback", <<>> >> >>
    IN  /\ UNCHANGED <<now, config, analysis, logExists, serving>>
        /\ \E scan \in {FeedbackScan(logFile, prediction_id, actual_label)} :
             IF ~logExists \/ scan.raised
             THEN /\ logger' = error
                  /\ UNCHANGED <<logFile, metricsFile>>
             ELSE IF ~scan.updated
             THEN /\ logger' = << <<"warning", "No prediction found", <<>> >> >>
                  /\ UNCHANGED <<logFile, metricsFile>>
             ELSE \E written \in {FeedbackRewrite(scan.logs)} :
                  /\ logFile' = written
                  /\ IF ~config.performance_tracking
                     THEN logger' = done /\ UNCHANGED metricsFile
                     ELSE \E calc \in {calculate_performance_metrics(
                                           TRUE, written, metricsFile, NoTime, NoTime, now)} :
                          /\ Len(calc.history) <= MaxMetrics
                          /\ metricsFile' = calc.history
                          /\ logger' = done \o calc.logged
                                        \o IF calc.raised THEN error ELSE <<>>

Labels == {0, 1}

Feedback(prediction_id, actual_label) ==
    [prediction_id |-> prediction_id, actual_label |-> actual_label]

\* the feedback submitted to the library: an id never logged, the ids
\* log_prediction is called with, the id column of a batch as text, and
\* the ids log_batch_predictions generates
FeedbackInputs ==
    {Feedback(Str("txn", 0, 0), 1),
     Feedback(Str("txn", 1, 0), 0), Feedback(Str("txn", 1, 0), 1),
     Feedback(Str("txn", 2, 0), 1),
     Feedback(Str("digits", 7, 0), 1),
     Feedback(GeneratedId(0, 0), 1), Feedback(GeneratedId(0, 1), 0)}

----------------------------------------------------------------------------
(* The serving layer (api.py).  Endpoint handlers run one at a time on the *)
(* event loop; the background tasks they schedule are plain functions, run *)
(* in worker threads after the response, so tasks of different requests    *)
(* interleave at their file operations.                                    *)

NoResponse == [status |-> 0, detail |-> "", prediction_id |-> NoStr]

Remove(seq, i) == SubSeq(seq, 1, i - 1) \o SubSeq(seq, i + 1, Len(seq))

\* rows that tasks not yet run will still add to the log
PendingRows ==
    LET F[i \in 0..Len(tasks)] ==
            IF i = 0 THEN 0
            ELSE F[i - 1] + IF tasks[i].kind = "log_predictions" THEN Len(tasks[i].data) ELSE 0
    IN  F[Len(tasks)]

\* feedback tasks that may still append a Metrics Snapshot
PendingFeedback == Cardinality({i \in 1..Len(tasks) : tasks[i].kind = "process_feedback"})

\* the /predict requests: the transactions and what the model answers
PredictRequests ==
    { [transactions |-> << << <<"amount", PyFloat(150)>> >> >>,
       include_probability |-> TRUE,
       predictions |-> <<1>>, probabilities |-> <<1>>],
      [transactions |-> << << <<"amount", PyFloat(20)>> >>, << <<"amount", PyFloat(150)>> >> >>,
       include_probability |-> FALSE,
       predictions |-> <<0, 1>>, probabilities |-> <<>>] }

\* POST /predict
predict(request) ==
    /\ IF ~config.enable_monitoring
       THEN /\ response' = [status |-> 503, detail |-> "Model monitor not initialized",
                            prediction_id |-> NoStr]
            /\ UNCHANGED <<uuids, tasks>>
       ELSE /\ uuids < MaxUuid
            /\ Len(tasks) < MaxTasks
            /\ Len(logFile) + PendingRows + Len(request.transactions) <= MaxLog
            /\ uuids' = uuids + 1
            /\ tasks' = Append(tasks,
                   [kind |-> "log_predictions", pc |-> "run",
                    prediction_id |-> Uuid4(uuids + 1), actual_label |-> 0,
                    data |-> request.transactions,
                    predictions |-> request.predictions,
                    probabilities |-> request.probabilities,
                    logs |-> <<>>])
            /\ response' = [status |-> 200, detail |-> "predictions",
                            prediction_id |-> Uuid4(uuids + 1)]
    /\ logger' = <<>>
    /\ UNCHANGED <<now, config, analysis, logExists, logFile, metricsFile, appended, acked>>

\* data.columns.tolist()
Columns(df) == IF df = <<>> THEN <<>> ELSE Map(df[1], LAMBDA kv : kv[1])

\* data_with_predictions: data with the prediction (and probability) column
WithPredictions(data, predictions, probabilities) ==
    Map(Indices(Len(data)), LAMBDA i :
        LET row == DictSet(data[i], "prediction", PyInt(predictions[i]))
        IN  IF probabilities # <<>>
            THEN DictSet(row, "probability", PyFloat(probabilities[i]))
            ELSE row)

\* the background task log_predictions
log_predictions(i) ==
    LET task == tasks[i]
        lines == BatchLines(
                     WithPredictions(task.data, task.predictions, task.probabilities),
                     Columns(task.data), "prediction",
                     IF task.probabilities # <<>> THEN "probability" ELSE NoCol,
                     NoCol, NoCol, now)
    IN  /\ task.kind = "log_predictions"
        /\ logExists' = TRUE
        /\ logFile' = AppendLines(logFile, lines)
        /\ appended' = appended + Len(lines)
        /\ logger' = << <<"info", "Logged predictions", <<>> >>,
                        <<"info", "Successfully logged predictions", <<>> >> >>
        /\ tasks' = Remove(tasks, i)
        /\ UNCHANGED <<now, config, analysis, metricsFile, uuids, response, acked>>

\* POST /feedback
prediction_feedback(prediction_id, actual_label) ==
    /\ IF ~config.enable_monitoring
       THEN /\ response' = [status |-> 503, detail |-> "Model monitor not initialized",
                            prediction_id |-> NoStr]
            /\ logger' = <<>>
            /\ UNCHANGED tasks
       ELSE IF ~logExists
       THEN /\ response' = [status |-> 500,
                            detail |-> "Error processing feedback: 404: No prediction logs found",
                            prediction_id |-> NoStr]
            /\ logger' = << <<"error", "Error processing feedback", <<>> >> >>
            /\ UNCHANGED tasks
       ELSE /\ Len(tasks) < MaxTasks
            /\ Cardinality(acked) + PendingFeedback < MaxFeedback
            /\ config.performance_tracking =>
                   Len(metricsFile) + PendingFeedback < MaxMetrics
            /\ tasks' = Append(tasks,
                   [kind |-> "process_feedback", pc |-> "read",
                    prediction_id |-> prediction_id, actual_label |-> actual_label,
                    data |-> <<>>, predictions |-> <<>>, probabilities |-> <<>>,
                    logs |-> <<>>])
            /\ response' = [status |-> 200, detail |-> "Feedback submitted successfully",
                            prediction_id |-> NoStr]
            /\ logger' = <<>>
    /\ UNCHANGED <<now, config, analysis, logExists, logFile, metricsFile, uuids, appended, acked>>

\* the background task process_feedback, first phase: the read loop
process_feedback_read(i) ==
    LET task == tasks[i]
    IN  /\ task.kind = "process_feedback" /\ task.pc = "read"
        /\ \E scan \in {FeedbackScan(logFile, task.prediction_id, task.actual_label)} :
             IF ~logExists \/ scan.raised
             THEN /\ logger' = << <<"error", "Error processing feedback", <<>> >> >>
                  /\ tasks' = Remove(tasks, i)
             ELSE IF ~scan.updated
             THEN /\ logger' = << <<"warning", "No prediction found", <<>> >> >>
                  /\ tasks' = Remove(tasks, i)
             ELSE /\ logger' = <<>>
                  /\ tasks' = [tasks EXCEPT ![i].pc = "open", ![i].logs = scan.logs]
        /\ UNCHANGED <<now, config, analysis, logExists, logFile, metricsFile, uuids, response,
                       appended, acked>>

\* second phase: open(log_path, "w") empties the file
process_feedback_open(i) ==
    /\ tasks[i].kind = "process_feedback" /\ tasks[i].pc = "open"
    /\ logExists' = TRUE
    /\ logFile' = <<>>
    /\ tasks' = [tasks EXCEPT ![i].pc = "write"]
    /\ logger' = <<>>
    /\ UNCHANGED <<now, config, analysis, metricsFile, uuids, response, appended, acked>>

\* a line cut short by a write that began further up in the file
Garbled == [ok |-> FALSE, members |-> <<>>]

\* The file after `written` is flushed at offset 0 of a file that holds
\* `old`, the lines other writers put there since this writer emptied it.
\* The flush overwrites the front of `old`; what lies beyond it stays, and
\* its first line may be cut.
Overwrite(old, written) ==
    IF Len(old) <= Len(written)
    THEN {written}
    ELSE {written \o SubSeq(old, Len(written) + 1, Len(old)),
          written \o <<Garbled>> \o SubSeq(old, Len(written) + 2, Len(old))}

\* third phase: the write loop and the close that flushes it
process_feedback_write(i) ==
    LET task == tasks[i]
    IN  /\ task.kind = "process_feedback" /\ task.pc = "write"
        /\ logFile' \in Overwrite(logFile, FeedbackRewrite(task.logs))
        /\ logger' = << <<"info", "Updated prediction log with feedback", <<>> >> >>
        /\ acked' = acked \cup {<<task.prediction_id, task.actual_label>>}
        /\ tasks' = IF config.performance_tracking
                    THEN [tasks EXCEPT ![i].pc = "metrics"]
                    ELSE Remove(tasks, i)
        /\ UNCHANGED <<now, config, analysis, logExists, metricsFile, uuids, response, appended>>

\* last phase: monitor.calculate_performance_metrics()
process_feedback_metrics(i) ==
    /\ tasks[i].kind = "process_feedback" /\ tasks[i].pc = "metrics"
    /\ \E calc \in {calculate_performance_metrics(
                       logExists, logFile, metricsFile, NoTime, NoTime, now)} :
         /\ metricsFile' = calc.history
         /\ logger' = calc.logged
                       \o IF calc.raised
                          THEN << <<"error", "Error processing feedback", <<>> >> >>
                          ELSE <<>>
    /\ tasks' = Remove(tasks, i)
    /\ UNCHANGED <<now, config, analysis, logExists, logFile, uuids, response, appended, acked>>

\* the prediction_ids clients submit feedback for
RequestIds ==
    {Str("txn", 0, 0)} \cup {Uuid4(k) : k \in 1..uuids}
    \cup {GeneratedId(t, i) : t \in Instants, i \in 0..1}

----------------------------------------------------------------------------
(* The clock.                                                              *)

Tick ==
    /\ now + 1 \in Instants
    /\ now' = now + 1
    /\ UNCHANGED <<config, analysis, logExists, logFile, metricsFile, logger, serving>>

----------------------------------------------------------------------------
(* The library by itself: calls of ModelMonitor and process_feedback, one  *)
(* at a time (Spec); the serving layer with its background tasks           *)
(* (SpecServe).                                                            *)

\* the config dict a ModelMonitor is constructed with
Config(enable_monitoring, performance_tracking, drift_detection, thresholds) ==
    [enable_monitoring |-> enable_monitoring,
     performance_tracking |-> performance_tracking,
     drift_detection |-> drift_detection,
     alert_threshold |-> thresholds]

\* a history file that does not exist yet
NoFile == [state |-> "absent", entries |-> <<>>]

\* no direct call has been made yet.  Of a call, `value` is what it
\* returned (nothing when it raised) and `local` the report it had built
\* when it ended.
NoResult == [call |-> "", args |-> <<>>, raised |-> FALSE, value |-> <<>>, local |-> <<>>]

Init ==
    /\ now = 0
    /\ config \in {Config(e, p, TRUE, alert_threshold) : e, p \in BOOLEAN}
    /\ logExists = FALSE
    /\ logFile = <<>>
    /\ metricsFile = <<>>
    /\ logger = <<>>
    /\ uuids = 0
    /\ tasks = <<>>
    /\ response = NoResponse
    /\ appended = 0
    /\ acked = {}
    /\ driftFile = NoFile
    /\ result = NoResult

Next ==
    \/ Tick
    \/ \E a \in LogPredictionInputs :
          log_prediction(a.prediction_id, a.features, a.prediction,
                         a.probability, a.true_label, a.metadata)
    \/ \E b \in BatchInputs :
          log_batch_predictions(b.predictions_df, b.features_cols, b.prediction_col,
                                b.probability_col, b.true_label_col, b.id_col)
    \/ \E f \in FeedbackInputs : process_feedback(f.prediction_id, f.actual_label)

Spec == Init /\ [][Next]_vars

NextServe ==
    \/ Tick
    \/ \E request \in PredictRequests : predict(request)
    \/ \E id \in RequestIds, label \in Labels : prediction_feedback(id, label)
    \/ \E i \in 1..Len(tasks) : log_predictions(i)
    \/ \E i \in 1..Len(tasks) : process_feedback_read(i)
    \/ \E i \in 1..Len(tasks) : process_feedback_open(i)
    \/ \E i \in 1..Len(tasks) : process_feedback_write(i)
    \/ \E i \in 1..Len(tasks) : process_feedback_metrics(i)

SpecServe == Init /\ [][NextServe]_vars

----------------------------------------------------------------------------
(* The monitor's metrics called directly, with a time window, under        *)
(* configured alert thresholds (SpecMetrics).                              *)

\* alert_threshold maps a deployment may configure
AlertThresholds ==
    { alert_threshold,
      << <<"accuracy", <<1, 2>> >>, <<"auc", <<4, 5>> >>, <<"count", <<2, 1>> >> >>,
      << <<"recall", <<1, 2>> >>, <<"timestamp", <<4, 5>> >> >> }

\* the predictions logged before the metrics are asked for
MetricsInputs ==
    { [prediction_id |-> PyStr(Str("txn", 1, 0)), features |-> PyDict(<<>>),
       prediction |-> PyInt(pl[1]), probability |-> PyNone,
       true_label |-> pl[2], metadata |-> PyNone] :
      pl \in { <<1, PyInt(1)>>, <<1, PyInt(0)>>, <<0, PyInt(1)>>, <<1, PyNone>> } }

\* the time windows a caller passes (None is NoTime)
Windows == { <<NoTime, NoTime>>, <<1, NoTime>>, <<NoTime, 0>>, <<0, 1>> }

\* monitor.calculate_performance_metrics(start_time, end_time)
monitor_calculate_performance_metrics(start_time, end_time) ==
    \E calc \in {calculate_performance_metrics(logExists, logFile, metricsFile,
                                               start_time, end_time, now)} :
       /\ Len(calc.history) <= MaxSnapshots
       /\ metricsFile' = calc.history
       /\ logger' = calc.logged
       /\ result' = [call |-> "calculate_performance_metrics",
                     args |-> <<start_time, end_time>>,
                     raised |-> calc.raised, value |-> calc.metrics, local |-> <<>>]
       /\ UNCHANGED <<now, config, logExists, logFile, driftFile, serving>>

InitMetrics ==
    /\ now = 0
    /\ config \in {Config(TRUE, TRUE, TRUE, th) : th \in AlertThresholds}
                  \cup {Config(FALSE, TRUE, TRUE, alert_threshold)}
    /\ logExists = FALSE
    /\ logFile = <<>>
    /\ metricsFile = <<>>
    /\ logger = <<>>
    /\ uuids = 0
    /\ tasks = <<>>
    /\ response = NoResponse
    /\ appended = 0
    /\ acked = {}
    /\ driftFile = NoFile
    /\ result = NoResult

NextMetrics ==
    \/ Tick
    \/ \E a \in MetricsInputs :
          log_prediction(a.prediction_id, a.features, a.prediction,
                         a.probability, a.true_label, a.metadata)
    \/ \E w \in Windows : monitor_calculate_performance_metrics(w[1], w[2])

SpecMetrics == InitMetrics /\ [][NextMetrics]_vars

----------------------------------------------------------------------------
(* ModelEvaluator.evaluate on a dataset with labels y_true for which the   *)
(* model answers y_pred (SpecEvaluate).  The dict is modelled up to its    *)
(* scores and confusion counts; auc_roc, avg_precision, the inference      *)
(* times and the timestamp are left out, the exception roc_auc_score can   *)
(* raise is kept.                                                          *)

\* the label columns of the datasets evaluated
LabelLists == UNION {[1..n -> {0, 1}] : n \in 1..MaxSamples}

\* the classes confusion_matrix finds in y_true and y_pred together
Classes(y_true, y_pred) ==
    {y_true[i] : i \in 1..Len(y_true)} \cup {y_pred[i] : i \in 1..Len(y_pred)}

\* cm[t, p]: the rows with true class t predicted as p
Cell(y_true, y_pred, t, p) ==
    Cardinality({i \in 1..Len(y_true) : y_true[i] = t /\ y_pred[i] = p})

\* ModelEvaluator.evaluate:
\*   roc_auc_score is undefined for a y_true of one class; depending on the
\*   scikit-learn release it raises ValueError or answers nan (auc_raises);
\*   confusion_matrix is 1 x 1 when y_true and y_pred together hold one
\*   class, and cm[0, 1] then raises IndexError.
evaluate(y_true, y_pred, has_proba, auc_raises) ==
    LET tp == Cell(y_true, y_pred, 1, 1)
        fp == Cell(y_true, y_pred, 0, 1)
        fn == Cell(y_true, y_pred, 1, 0)
        tn == Cell(y_true, y_pred, 0, 0)
    IN  IF \/ has_proba /\ auc_raises /\ Cardinality(Classes(y_true, <<>>)) = 1
           \/ Cardinality(Classes(y_true, y_pred)) = 1
        THEN [raised |-> TRUE, metrics |-> <<>>]
        ELSE [raised |-> FALSE,
              metrics |-> << <<"accuracy", Ratio(tp + tn, Len(y_true))>>,
                             <<"precision", Ratio(tp, tp + fp)>>,
                             <<"recall", Ratio(tp, tp + fn)>>,
                             <<"f1", Ratio(2 * tp, 2 * tp + fp + fn)>>,
                             <<"tn", <<tn, 1>> >>, <<"fp", <<fp, 1>> >>,
                             <<"fn", <<fn, 1>> >>, <<"tp", <<tp, 1>> >> >>]

\* evaluator.evaluate(model, X, y_true, dataset_name)
ModelEvaluator_evaluate(y_true, y_pred, has_proba) ==
    \E auc_raises \in BOOLEAN :
       \E e \in {evaluate(y_true, y_pred, has_proba, auc_raises)} :
          /\ result' = [call |-> "evaluate",
                        args |-> <<y_true, y_pred, has_proba>>,
                        raised |-> e.raised, value |-> e.metrics, local |-> <<>>]
          /\ logger' = << <<"info", "Evaluating model", <<>> >> >>
          /\ UNCHANGED <<now, config, logExists, logFile, metricsFile, driftFile, serving>>

InitEvaluate ==
    /\ now = 0
    /\ config = Config(TRUE, TRUE, TRUE, alert_threshold)
    /\ logExists = FALSE
    /\ logFile = <<>>
    /\ metricsFile = <<>>
    /\ logger = <<>>
    /\ uuids = 0
    /\ tasks = <<>>
    /\ response = NoResponse
    /\ appended = 0
    /\ acked = {}
    /\ driftFile = NoFile
    /\ result = NoResult

NextEvaluate ==
    \E y_true, y_pred \in LabelLists, has_proba \in BOOLEAN :
       /\ Len(y_true) = Len(y_pred)
       /\ ModelEvaluator_evaluate(y_true, y_pred, has_proba)

SpecEvaluate == InitEvaluate /\ [][NextEvaluate]_vars

----------------------------------------------------------------------------
(* ModelMonitor.detect_data_drift (SpecDrift).  A DataFrame is the list of *)
(* its (column name, column) pairs; a column has a dtype, numeric or not,  *)
(* and one value per row, None standing for a missing value.  Numbers are  *)
(* kept doubled once missing values are filled, so that the median of two  *)
(* values stays an integer.                                                *)

Column(numeric, values) == [numeric |-> numeric, values |-> values]

\* pd.api.types.is_numeric_dtype(frame[column])
is_numeric_dtype(column) == column.numeric

NonNull(values) == Filter(values, LAMBDA v : v # PyNone)

\* frame[column].isnull().all()
isnull_all(column) == NonNull(column.values) = <<>>

\* the k-th smallest of a non-empty list of integers
KthSmallest(ns, k) ==
    CHOOSE x \in {ns[i] : i \in 1..Len(ns)} :
       /\ Cardinality({i \in 1..Len(ns) : ns[i] < x}) < k
       /\ k <= Cardinality({i \in 1..Len(ns) : ns[i] <= x})

\* twice frame[column].median(): missing values are left out
median(column) ==
    LET ns == Map(NonNull(column.values), LAMBDA v : v.n)
        k == (Len(ns) + 1) \div 2
    IN  KthSmallest(ns, k) + KthSmallest(ns, Len(ns) + 1 - k)

\* frame[column].fillna(frame[column].median()), doubled
fillna(column) ==
    Map(column.values, LAMBDA v : IF v = PyNone THEN median(column) ELSE 2 * v.n)

\* the empirical distribution function of a sample at x, times its size
AtMost(sample, x) == Cardinality({i \in 1..Len(sample) : sample[i] <= x})

\* the statistic of ks_2samp: the largest distance between the two
\* empirical distribution functions, as a fraction
ks_stat(ref_values, cur_values) ==
    LET n == Len(ref_values)
        m == Len(cur_values)
        points == {ref_values[i] : i \in 1..n} \cup {cur_values[i] : i \in 1..m}
        gap(x) == LET d == AtMost(ref_values, x) * m - AtMost(cur_values, x) * n
                  IN  IF d < 0 THEN 0 - d ELSE d
    IN  <<CHOOSE g \in {gap(x) : x \in points} : \A x \in points : gap(x) <= g, n * m>>

\* threshold: float = 0.05
threshold_default == <<1, 20>>

\* The p-value of ks_2samp is not computed here: it is 1 when the two
\* samples have the same distribution function and otherwise any of the
\* values below (under, at and over the default threshold).
PValues == { <<1, 100>>, <<1, 20>>, <<1, 2>> }

p_value(ref_values, cur_values, p) ==
    IF ks_stat(ref_values, cur_values)[1] = 0 THEN <<1, 1>> ELSE p

\* a feature the loop examines rather than skips
Examined(reference_data, current_data, column) ==
    /\ DictHas(reference_data, column)
    /\ DictHas(current_data, column)
    /\ is_numeric_dtype(DictGet(reference_data, column))
    /\ is_numeric_dtype(DictGet(current_data, column))
    /\ ~isnull_all(DictGet(reference_data, column))
    /\ ~isnull_all(DictGet(current_data, column))

\* drift_results["features"][column] of an examined feature
FeatureEntry(ref_column, cur_column, threshold, p) ==
    << <<"ks_stat", ks_stat(fillna(ref_column), fillna(cur_column))>>,
       <<"p_value", p_value(fillna(ref_column), fillna(cur_column), p)>>,
       <<"drift_detected",
         Less(p_value(fillna(ref_column), fillna(cur_column), p), threshold)>> >>

\* drift_results["features"] after the first k names of feature_columns
RECURSIVE Features(_, _, _, _, _, _)
Features(reference_data, current_data, feature_columns, threshold, p_values, k) ==
    IF k = 0 THEN <<>>
    ELSE LET before == Features(reference_data, current_data, feature_columns,
                                threshold, p_values, k - 1)
             column == feature_columns[k]
         IN  IF Examined(reference_data, current_data, column)
             THEN DictSet(before, column,
                          FeatureEntry(DictGet(reference_data, column),
                                       DictGet(current_data, column),
                                       threshold, p_values[k]))
             ELSE before

\* an overall flag that is set as soon as any feature is examined
OverallDriftIfExamined(features) == features # <<>>

\* drift_results["overall_drift"] once the loop is over
OverallDrift(features) ==
    \E i \in 1..Len(features) : DictGet(features[i][2], "drift_detected")

\* len(frame)
Rows(frame) == IF frame = <<>> THEN 0 ELSE Len(frame[1][2].values)

\* drift_results as the loop leaves it
DriftResults(reference_data, current_data, features, t) ==
    << <<"timestamp", isoformat(t)>>,
       <<"n_reference", Rows(reference_data)>>,
       <<"n_current", Rows(current_data)>>,
       <<"features", features>>,
       <<"overall_drift", OverallDrift(features)>> >>

\* One call of detect_data_drift with drift_metrics.json being `file`:
\*   raised   json.load failed on a broken history, or json.dump failed on
\*            a drift_detected value, which is a numpy.bool_
\*   value    the dict returned ({} is <<>>)
\*   local    drift_results when the call ended
\*   file     drift_metrics.json afterwards: json.dump writes as it
\*            encodes, so a failed dump leaves the file cut off in the
\*            report it was writing
\*   logged   the logger messages of the call
Persisted(report, file) ==
    IF file.state = "corrupt"
    THEN [raised |-> TRUE, value |-> <<>>, local |-> report, file |-> file,
          logged |-> <<>>]
    ELSE IF DictGet(report, "features") # <<>>
    THEN [raised |-> TRUE, value |-> <<>>, local |-> report,
          file |-> [state |-> "corrupt", entries |-> file.entries],
          logged |-> <<>>]
    ELSE [raised |-> FALSE, value |-> report, local |-> report,
          file |-> [state |-> "list", entries |-> Append(file.entries, report)],
          logged |-> IF DictGet(report, "overall_drift")
                     THEN << <<"warning", "Data drift detected in production data", <<>> >>,
                             <<"warning", "Drifted features", <<>> >> >>
                     ELSE <<>>]

detect_data_drift(file, reference_data, current_data, feature_columns, threshold, p_values, t) ==
    IF ~config.drift_detection
    THEN [raised |-> FALSE, value |-> <<>>, local |-> <<>>, file |-> file,
          logged |-> <<>>]
    ELSE Persisted(DriftResults(reference_data, current_data,
                                Features(reference_data, current_data, feature_columns,
                                         threshold, p_values, Len(feature_columns)),
                                t),
                   file)

\* the columns of the datasets compared
Amounts == Column(TRUE, <<PyInt(1), PyInt(3)>>)

Shifted == Column(TRUE, <<PyInt(5), PyNone>>)

Missing == Column(TRUE, <<PyNone, PyNone>>)

Merchants == Column(FALSE, <<PyStr(Str("shop", 0, 0)), PyStr(Str("shop", 1, 0))>>)

\* the reference and current datasets a caller passes
Frames ==
    { << <<"merchant", Merchants>> >> }
    \cup { << <<"amount", c>>, <<"merchant", Merchants>> >> :
             c \in {Amounts, Shifted, Missing, Merchants} }

\* the feature_columns a caller passes
FeatureLists == { <<>>, <<"amount">>, <<"merchant">>, <<"merchant", "amount">> }

\* monitor.detect_data_drift(reference_data, current_data, feature_columns)
monitor_detect_data_drift(reference_data, current_data, feature_columns) ==
    \E p_values \in [1..Len(feature_columns) -> PValues] :
       \E d \in {detect_data_drift(driftFile, reference_data, current_data,
                                    feature_columns, threshold_default, p_values, now)} :
          /\ Len(d.file.entries) <= MaxDrift
          /\ driftFile' = d.file
          /\ logger' = d.logged
          /\ result' = [call |-> "detect_data_drift",
                        args |-> <<reference_data, current_data, feature_columns>>,
                        raised |-> d.raised, value |-> d.value, local |-> d.local]
          /\ UNCHANGED <<now, config, logExists, logFile, metricsFile, serving>>

InitDrift ==
    /\ now = 0
    /\ config \in {Config(TRUE, TRUE, d, alert_threshold) : d \in BOOLEAN}
    /\ logExists = FALSE
    /\ logFile = <<>>
    /\ metricsFile = <<>>
    /\ logger = <<>>
    /\ uuids = 0
    /\ tasks = <<>>
    /\ response = NoResponse
    /\ appended = 0
    /\ acked = {}
    /\ driftFile = NoFile
    /\ result = NoResult

NextDrift ==
    \/ Tick
    \/ \E reference_data, current_data \in Frames, feature_columns \in FeatureLists :
          monitor_detect_data_drift(reference_data, current_data, feature_columns)

SpecDrift == InitDrift /\ [][NextDrift]_vars

----------------------------------------------------------------------------
(* Reading the log back, for the properties below.                         *)

\* the entry a reader gets from line i of a file
Record(file, i) == json_loads(file[i])

\* the value a reader of line i finds under `key` (None when absent)
Field(file, i, key) ==
    LET members == file[i].members
    IN  IF DictHas(members, key)
        THEN loads_value(members[DictIndex(members, key)][2])
        ELSE PyNone

IdOf(file, i) == Field(file, i, "prediction_id")

HasId(file, id) == \E i \in 1..Len(file) : IdOf(file, i) = PyStr(id)

DistinctIds(file) ==
    \A i, j \in 1..Len(file) : IdOf(file, i) = IdOf(file, j) => i = j

\* a record without its true_label
Unlabelled(file, i) ==
    Filter(Record(file, i), LAMBDA kv : kv[1] # "true_label")

LastMessage(text) == logger # <<>> /\ logger[Len(logger)][2] = text

FirstMessage(text) == logger # <<>> /\ logger[1][2] = text

----------------------------------------------------------------------------
\* C1: with pairwise distinct prediction_ids in the log, a completed
\* process_feedback(id, label) for an id the log holds leaves the number of
\* records as it was, gives the record whose prediction_id is id the
\* true_label `label` and nothing else new, and leaves every other line
\* exactly as it was.
C1_FeedbackMutatesExactlyOne ==
    [][\A f \in FeedbackInputs :
          LET id == f.prediction_id  label == f.actual_label IN
          (/\ HasId(logFile, id)
           /\ DistinctIds(logFile)
           /\ process_feedback(id, label))
          => /\ Len(logFile') = Len(logFile)
             /\ Cardinality({i \in 1..Len(logFile) : logFile'[i] # logFile[i]}) <= 1
             /\ \A i \in 1..Len(logFile) :
                   IF IdOf(logFile, i) = PyStr(id)
                   THEN /\ Field(logFile', i, "true_label") = PyInt(label)
                        /\ Unlabelled(logFile', i) = Unlabelled(logFile, i)
                   ELSE logFile'[i] = logFile[i]]_vars

\* C1 witness: feedback has just updated a log of two records with distinct
\* ids, one of which now carries the label 1 and the other none.
C1_Witness ==
    /\ FirstMessage("Updated prediction log with feedback")
    /\ Len(logFile) = 2
    /\ DistinctIds(logFile)
    /\ \E i, j \in 1..2 :
          /\ Field(logFile, i, "true_label") = PyInt(1)
          /\ Field(logFile, j, "true_label") = PyNone

\* C2: when two records share the submitted prediction_id, process_feedback
\* labels only the first of them in file order; every later one stays as it
\* was.
C2_OnlyFirstDuplicateLabelled ==
    [][\A f \in FeedbackInputs :
          LET id == f.prediction_id  label == f.actual_label IN
          (/\ \E i, j \in 1..Len(logFile) :
                 i < j /\ IdOf(logFile, i) = PyStr(id) /\ IdOf(logFile, j) = PyStr(id)
           /\ process_feedback(id, label))
          => \A i, j \in 1..Len(logFile) :
                (i < j /\ IdOf(logFile, i) = PyStr(id) /\ IdOf(logFile, j) = PyStr(id))
                => /\ j <= Len(logFile')
                   /\ logFile'[j] = logFile[j]]_vars

\* the log_predictions task of the /predict request that returned
\* prediction_id has run
ReturnedAndLogged(prediction_id) ==
    /\ \E k \in 1..uuids : prediction_id = Uuid4(k)
    /\ \A i \in 1..Len(tasks) :
          tasks[i].kind = "log_predictions" => tasks[i].prediction_id # prediction_id

\* C3: once /predict has returned prediction_id P and its log_predictions
\* task has run, the read loop of a process_feedback task for P finds a
\* record whose prediction_id is P (and goes on to label it).
C3_ReturnedIdFindsItsRecord ==
    [][\A i \in 1..Len(tasks) :
          (/\ tasks[i].kind = "process_feedback"
           /\ tasks[i].pc = "read"
           /\ ReturnedAndLogged(tasks[i].prediction_id)
           /\ process_feedback_read(i))
          => /\ HasId(logFile, tasks[i].prediction_id)
             /\ Len(tasks') = Len(tasks)
             /\ tasks'[i].pc = "open"]_vars

\* C4: process_feedback for a prediction_id that no record of the log
\* carries leaves the log as it was, line for line, writes nothing (neither
\* the log nor a metrics snapshot computed from a rewritten log) and logs
\* the "No prediction found" warning instead of the update.
C4_NoMatchLeavesLogUntouched ==
    [][\A f \in FeedbackInputs :
          (/\ logExists
           /\ ~HasId(logFile, f.prediction_id)
           /\ process_feedback(f.prediction_id, f.actual_label))
          => /\ logFile' = logFile
             /\ metricsFile' = metricsFile
             /\ logger' = << <<"warning", "No prediction found", <<>> >> >>]_vars

\* C4 witness: process_feedback has just found no record in a log that
\* holds labelled and unlabelled records.
C4_Witness ==
    /\ LastMessage("No prediction found")
    /\ Len(logFile) = 2
    /\ \E i, j \in 1..2 :
          /\ Field(logFile, i, "true_label") = PyNone
          /\ Field(logFile, j, "true_label") # PyNone

\* C5: POST /feedback for a prediction_id that no record of the log carries
\* never answers with success.
C5_UnknownIdNeverSucceeds ==
    [][\A id \in RequestIds, label \in Labels :
          (/\ ~HasId(logFile, id)
           /\ prediction_feedback(id, label))
          => response'.status # 200]_vars

\* C6: when every background task has finished and no appended line was
\* lost, each prediction_id that exactly one feedback task reported as
\* updated has a record carrying the label that task submitted.
C6_NoLostFeedbackUpdate ==
    (tasks = <<>> /\ Len(logFile) = appended)
    => \A a \in acked :
          (\A b \in acked : b[1] = a[1] => b = a)
          => \E i \in 1..Len(logFile) :
                /\ IdOf(logFile, i) = PyStr(a[1])
                /\ Field(logFile, i, "true_label") = PyInt(a[2])

\* C7: when every background task has finished, every line a log_predictions
\* task appended is still in the log.
C7_AppendedRecordsSurvive ==
    tasks = <<>> => Len(logFile) >= appended

\* C8: no step of the library removes a record or moves one: the log never
\* gets shorter, the record at every position keeps its prediction_id and
\* timestamp, and a step that changes an existing line (a feedback rewrite)
\* leaves the number of lines as it was.
C8_RecordsStayInPlace ==
    [][/\ Len(logFile') >= Len(logFile)
       /\ \A i \in 1..Len(logFile) :
             /\ IdOf(logFile', i) = IdOf(logFile, i)
             /\ Field(logFile', i, "timestamp") = Field(logFile, i, "timestamp")
       /\ (\E i \in 1..Len(logFile) : logFile'[i] # logFile[i])
          => Len(logFile') = Len(logFile)]_vars

\* C8 witness: a log whose two records differ in prediction_id and in
\* timestamp, the first of them labelled by a feedback rewrite that ran
\* after the second was appended.
C8_Witness ==
    /\ FirstMessage("Updated prediction log with feedback")
    /\ Len(logFile) = 2
    /\ IdOf(logFile, 1) # IdOf(logFile, 2)
    /\ Field(logFile, 1, "timestamp") # Field(logFile, 2, "timestamp")
    /\ Field(logFile, 1, "true_label") = PyInt(1)
    /\ Field(logFile, 2, "true_label") = PyNone

\* C9: across every step of the library every stored record keeps its
\* prediction_id, timestamp, prediction, probability and features, and
\* every other member it has; true_label is the only one that may differ.
C9_OnlyTrueLabelChanges ==
    [][\A i \in 1..Len(logFile) :
          /\ i <= Len(logFile')
          /\ \A key \in {"prediction_id", "timestamp", "prediction",
                         "probability", "features"} :
                Field(logFile', i, key) = Field(logFile, i, key)
          /\ Unlabelled(logFile', i) = Unlabelled(logFile, i)]_vars

\* C9 witness: a feedback rewrite has just labelled a record that has
\* features, a prediction and metadata, next to a record with a float
\* probability.
C9_Witness ==
    /\ FirstMessage("Updated prediction log with feedback")
    /\ \E i, j \in 1..Len(logFile) :
          /\ Field(logFile, i, "true_label") = PyInt(1)
          /\ Field(logFile, i, "metadata") # PyNone
          /\ Field(logFile, i, "features").d # <<>>
          /\ Field(logFile, j, "probability").t = "float"

\* C10: the line log_prediction appends reads back as a record whose
\* prediction_id, timestamp, prediction, probability, true_label and
\* features are the values written, type for type, and which has a metadata
\* member exactly when non-empty metadata was supplied (then equal to it).
C10_LogPredictionRoundTrip ==
    [][\A a \in LogPredictionInputs :
          (/\ config.enable_monitoring
           /\ log_prediction(a.prediction_id, a.features, a.prediction,
                             a.probability, a.true_label, a.metadata))
          => /\ Len(logFile') = Len(logFile) + 1
             /\ ~loads_raises(logFile'[Len(logFile')])
             /\ LET read == json_loads(logFile'[Len(logFile')])
                IN  /\ DictGet(read, "prediction_id") = a.prediction_id
                    /\ DictGet(read, "timestamp") = PyStr(isoformat(now))
                    /\ DictGet(read, "prediction") = a.prediction
                    /\ DictGet(read, "probability") = a.probability
                    /\ DictGet(read, "true_label") = a.true_label
                    /\ DictGet(read, "features") = a.features
                    /\ DictHas(read, "metadata") <=> Truthy(a.metadata)
                    /\ Truthy(a.metadata) => DictGet(read, "metadata") = a.metadata]_vars

\* C10 witness: log_prediction has just appended a record written with an
\* empty metadata dict and a float prediction, after a record written with
\* metadata.
C10_Witness ==
    /\ logger = <<>>
    /\ Len(logFile) = 2
    /\ DictHas(Record(logFile, 1), "metadata")
    /\ ~DictHas(Record(logFile, 2), "metadata")
    /\ Field(logFile, 2, "features") = PyDict(<<>>)
    /\ Field(logFile, 2, "prediction") = PyFloat(1)

\* C11: process_feedback for a prediction_id whose record already carries
\* a different label is not rejected (it logs the update) and leaves every
\* record with that prediction_id carrying the label submitted last.
C11_LaterFeedbackWins ==
    [][\A f \in FeedbackInputs :
          LET id == f.prediction_id  label == f.actual_label IN
          (/\ \E i \in 1..Len(logFile) :
                 /\ IdOf(logFile, i) = PyStr(id)
                 /\ Field(logFile, i, "true_label") # PyNone
                 /\ Field(logFile, i, "true_label").n # label
           /\ process_feedback(id, label))
          => /\ logger' # <<>>
             /\ logger'[1][2] = "Updated prediction log with feedback"
             /\ \A i \in 1..Len(logFile) :
                   IdOf(logFile, i) = PyStr(id)
                   => Field(logFile', i, "true_label") = PyInt(label)]_vars

\* C11 witness: a record written without a label carries the label 0 that
\* a first feedback gave it, and nothing keeps a second feedback with the
\* label 1 for the same prediction_id from running.
C11_Witness ==
    /\ FirstMessage("Updated prediction log with feedback")
    /\ \E i \in 1..Len(logFile) :
          /\ IdOf(logFile, i) = PyStr(Str("txn", 1, 0))
          /\ Field(logFile, i, "features") = PyDict(<<>>)
          /\ Field(logFile, i, "true_label") = PyInt(0)
    /\ Feedback(Str("txn", 1, 0), 1) \in FeedbackInputs
    /\ config.performance_tracking => Len(metricsFile) < MaxMetrics

----------------------------------------------------------------------------
(* The read paths of the monitor over a log that may hold a line cut       *)
(* short (SpecRead): get_recent_predictions, calculate_performance_metrics *)
(* and extract_predictions_for_monitoring, next to log_prediction and      *)
(* process_feedback.  A timedelta of `hours` is that many clock readings.  *)

\* log.get(key, default)
GetOr(log, key, default) == IF DictHas(log, key) THEN DictGet(log, key) ELSE default

\* the base fields of a log, as a row of the DataFrame returned;
\* pd.to_datetime parses the timestamp
BaseFields(log) ==
    << <<"prediction_id", GetOr(log, "prediction_id", PyStr(NoStr))>>,
       <<"timestamp", fromisoformat(DictGet(log, "timestamp"))>>,
       <<"prediction", GetOr(log, "prediction", PyNone)>>,
       <<"probability", GetOr(log, "probability", PyNone)>>,
       <<"true_label", GetOr(log, "true_label", PyNone)>> >>

\* a sort that puts the oldest log first
SortOldestFirst(logs) ==
    LET time(i) == fromisoformat(DictGet(logs[i], "timestamp"))
        rank(i) == 1 + Cardinality({j \in 1..Len(logs) :
                                      \/ time(j) < time(i)
                                      \/ time(j) = time(i) /\ j < i})
    IN  Map(Indices(Len(logs)),
            LAMBDA k : logs[CHOOSE i \in 1..Len(logs) : rank(i) = k])

\* logs.sort(key=timestamp, reverse=True): newest first, logs with equal
\* timestamps in the order they had (the sort is stable)
SortNewestFirst(logs) ==
    LET time(i) == fromisoformat(DictGet(logs[i], "timestamp"))
        rank(i) == 1 + Cardinality({j \in 1..Len(logs) :
                                      \/ time(j) > time(i)
                                      \/ time(j) = time(i) /\ j < i})
    IN  Map(Indices(Len(logs)),
            LAMBDA k : logs[CHOOSE i \in 1..Len(logs) : rank(i) = k])

\* seq[:limit]
Slice(seq, limit) ==
    IF limit >= Len(seq) THEN seq
    ELSE IF limit >= 0 THEN SubSeq(seq, 1, limit)
    ELSE IF Len(seq) + limit > 0 THEN SubSeq(seq, 1, Len(seq) + limit)
    ELSE <<>>

\* One call of get_recent_predictions at time t:
\*   raised   json.loads failed on a line
\*   rows     the rows of the DataFrame returned
\*   logged   the logger messages of the call
get_recent_predictions(exists, file, hours, limit, t) ==
    IF ~exists
    THEN [raised |-> FALSE, rows |-> <<>>,
          logged |-> << <<"warning", "No prediction logs found", <<>> >> >>]
    ELSE IF \E i \in 1..Len(file) : loads_raises(file[i])
    THEN [raised |-> TRUE, rows |-> <<>>, logged |-> <<>>]
    ELSE [raised |-> FALSE,
          rows |-> Map(Slice(SortNewestFirst(
                                 Filter(Map(file, json_loads),
                                        LAMBDA log : fromisoformat(DictGet(log, "timestamp"))
                                                     >= t - hours)),
                             limit),
                       BaseFields),
          logged |-> <<>>]

\* isinstance(log["features"], dict)
IsDict(v) == v.t = "dict"

\* feature_data = {"prediction_id": ...}; feature_data.update(log["features"])
FeatureData(log) ==
    LET F[i \in 0..Len(DictGet(log, "features").d)] ==
            IF i = 0
            THEN << <<"prediction_id", GetOr(log, "prediction_id", PyStr(NoStr))>> >>
            ELSE DictSet(F[i - 1], DictGet(log, "features").d[i][1],
                         DictGet(log, "features").d[i][2])
    IN  F[Len(DictGet(log, "features").d)]

\* the lines json.loads accepts, loaded; the others are skipped
WellFormed(file) == Map(Filter(file, LAMBDA line : ~loads_raises(line)), json_loads)

\* One call of extract_predictions_for_monitoring:
\*   predictions, features   the rows of the two DataFrames returned
\*   logged                  the logger messages of the call
Extracted(logs) ==
    IF logs = <<>>
    THEN [predictions |-> <<>>, features |-> <<>>,
          logged |-> << <<"warning", "No logs found for the specified time period", <<>> >> >>]
    ELSE [predictions |-> Map(logs, BaseFields),
          features |-> Map(Filter(logs, LAMBDA log : /\ DictHas(log, "features")
                                                     /\ IsDict(DictGet(log, "features"))),
                           FeatureData),
          logged |-> <<>>]

extract_predictions_for_monitoring(exists, file, start_date, end_date) ==
    IF ~exists
    THEN [predictions |-> <<>>, features |-> <<>>,
          logged |-> << <<"warning", "No prediction logs found", <<>> >> >>]
    ELSE Extracted(Filter(WellFormed(file),
                          LAMBDA log : InWindow(log, start_date, end_date)))

\* monitoring.extract_predictions_for_monitoring(log_path, start_date, end_date)
monitoring_extract_predictions_for_monitoring(start_date, end_date) ==
    \E e \in {extract_predictions_for_monitoring(logExists, logFile, start_date, end_date)} :
       /\ logger' = e.logged
       /\ result' = [call |-> "extract_predictions_for_monitoring",
                     args |-> <<start_date, end_date>>,
                     raised |-> FALSE, value |-> <<e.predictions, e.features>>,
                     local |-> <<>>]
       /\ UNCHANGED <<now, config, logExists, logFile, metricsFile, driftFile, serving>>

\* the hours and limits a caller passes
Hours == {0, 1}

Limits == 0..MaxLimit

\* monitor.get_recent_predictions(hours, limit)
monitor_get_recent_predictions(hours, limit) ==
    \E recent \in {get_recent_predictions(logExists, logFile, hours, limit, now)} :
       /\ logger' = recent.logged
       /\ result' = [call |-> "get_recent_predictions", args |-> <<hours, limit>>,
                     raised |-> recent.raised, value |-> recent.rows, local |-> <<>>]
       /\ UNCHANGED <<now, config, logExists, logFile, metricsFile, driftFile, serving>>

\* log_prediction stopped (the process killed, the disk full) while it
\* writes its line: the log ends in a line cut short
log_prediction_cut ==
    /\ config.enable_monitoring
    /\ Len(logFile) < MaxLog
    /\ logExists' = TRUE
    /\ logFile' = AppendLines(logFile, <<Garbled>>)
    /\ logger' = <<>>
    /\ UNCHANGED <<now, config, analysis, metricsFile, serving>>

InitRead ==
    /\ now = 0
    /\ config \in {Config(TRUE, p, TRUE, alert_threshold) : p \in BOOLEAN}
    /\ logExists = FALSE
    /\ logFile = <<>>
    /\ metricsFile = <<>>
    /\ logger = <<>>
    /\ uuids = 0
    /\ tasks = <<>>
    /\ response = NoResponse
    /\ appended = 0
    /\ acked = {}
    /\ driftFile = NoFile
    /\ result = NoResult

NextRead ==
    \/ Tick
    \/ \E a \in LogPredictionInputs :
          log_prediction(a.prediction_id, a.features, a.prediction,
                         a.probability, a.true_label, a.metadata)
    \/ log_prediction_cut
    \/ \E hours \in Hours, limit \in Limits : monitor_get_recent_predictions(hours, limit)

SpecRead == InitRead /\ [][NextRead]_vars

\* process_feedback over a log that may hold a line cut short
\* (SpecFeedback)
NextFeedback ==
    \/ Tick
    \/ \E a \in LogPredictionInputs :
          log_prediction(a.prediction_id, a.features, a.prediction,
                         a.probability, a.true_label, a.metadata)
    \/ log_prediction_cut
    \/ \E f \in FeedbackInputs : process_feedback(f.prediction_id, f.actual_label)

SpecFeedback == InitRead /\ [][NextFeedback]_vars

\* GET /metrics, served while background tasks run (SpecReaders); `local`
\* of the result is the list of lines the read loop found in the log
get_metrics ==
    /\ IF ~config.enable_monitoring
       THEN /\ response' = [status |-> 503, detail |-> "Model monitor not initialized",
                            prediction_id |-> NoStr]
            /\ logger' = <<>>
            /\ UNCHANGED <<metricsFile, result>>
       ELSE \E calc \in {calculate_performance_metrics(
                              logExists, logFile, metricsFile, NoTime, NoTime, now)} :
               /\ Len(calc.history) <= MaxSnapshots
               /\ metricsFile' = calc.history
               /\ logger' = calc.logged
                             \o IF calc.raised
                                THEN << <<"error", "Error retrieving metrics", <<>> >> >>
                                ELSE <<>>
               /\ response' = IF calc.raised
                              THEN [status |-> 500, detail |-> "Error retrieving metrics",
                                    prediction_id |-> NoStr]
                              ELSE [status |-> 200, detail |-> "metrics",
                                    prediction_id |-> NoStr]
               /\ result' = [call |-> "get_metrics", args |-> <<>>,
                             raised |-> calc.raised, value |-> calc.metrics,
                             local |-> IF logExists THEN logFile ELSE <<>>]
    /\ UNCHANGED <<now, config, driftFile, logExists, logFile, uuids, tasks, appended, acked>>

NextReaders ==
    \/ NextServe
    \/ get_metrics

SpecReaders == Init /\ [][NextReaders]_vars

\* the tables handed to log_batch_predictions, with and without a usable
\* ID column (SpecBatch)
BatchTables ==
    BatchInputs
    \cup { [predictions_df |-> << << <<"amount", PyFloat(20)>>, <<"prediction", PyInt(1)>> >> >>,
             features_cols |-> <<"amount">>, prediction_col |-> "prediction",
             probability_col |-> NoCol, true_label_col |-> NoCol, id_col |-> NoCol],
            [predictions_df |-> << << <<"prediction_id", PyInt(7)>>, <<"amount", PyFloat(150)>>,
                                      <<"prediction", PyInt(0)>> >> >>,
             features_cols |-> <<"amount">>, prediction_col |-> "prediction",
             probability_col |-> NoCol, true_label_col |-> NoCol, id_col |-> "txn"] }

InitBatch ==
    /\ now = 0
    /\ config \in {Config(e, TRUE, TRUE, alert_threshold) : e \in BOOLEAN}
    /\ logExists = FALSE
    /\ logFile = <<>>
    /\ metricsFile = <<>>
    /\ logger = <<>>
    /\ uuids = 0
    /\ tasks = <<>>
    /\ response = NoResponse
    /\ appended = 0
    /\ acked = {}
    /\ driftFile = NoFile
    /\ result = NoResult

NextBatch ==
    \/ Tick
    \/ \E a \in LogPredictionInputs :
          log_prediction(a.prediction_id, a.features, a.prediction,
                         a.probability, a.true_label, a.metadata)
    \/ \E b \in BatchTables :
          log_batch_predictions(b.predictions_df, b.features_cols, b.prediction_col,
                                b.probability_col, b.true_label_col, b.id_col)

SpecBatch == InitBatch /\ [][NextBatch]_vars

\* the three bulk read paths over the same log, each with its default
\* arguments (SpecScan)
NextScan ==
    \/ Tick
    \/ \E a \in LogPredictionInputs :
          log_prediction(a.prediction_id, a.features, a.prediction,
                         a.probability, a.true_label, a.metadata)
    \/ log_prediction_cut
    \/ monitor_calculate_performance_metrics(NoTime, NoTime)
    \/ monitor_get_recent_predictions(1, MaxLimit)
    \/ monitoring_extract_predictions_for_monitoring(NoTime, NoTime)

SpecScan == InitRead /\ [][NextScan]_vars

----------------------------------------------------------------------------
\* what a reader of the log sees of line i
TimeOf(file, i) == fromisoformat(Field(file, i, "timestamp"))

IsLabelled(file, i) ==
    /\ DictHas(file[i].members, "prediction")
    /\ Field(file, i, "true_label") # PyNone

\* the labelled records stamped in [start_time, end_time)
HalfOpen(file, start_time, end_time) ==
    {i \in 1..Len(file) :
        /\ IsLabelled(file, i)
        /\ start_time # NoTime => TimeOf(file, i) >= start_time
        /\ end_time # NoTime => TimeOf(file, i) < end_time}

\* the snapshot a call has just returned counts n records
Counts(n) ==
    IF n = 0 THEN result.value = <<>>
    ELSE /\ DictHas(result.value, "count")
         /\ DictGet(result.value, "count") = <<n, 1>>

\* C12: a call of calculate_performance_metrics(start_time, end_time) that
\* returns computes its metrics from exactly the labelled records stamped
\* in the half-open window [start_time, end_time): a record stamped
\* start_time is counted, a record stamped end_time is not.
C12_WindowIsHalfOpen ==
    [][\A w \in Windows :
          (/\ config.enable_monitoring
           /\ logExists
           /\ result'.args = w
           /\ monitor_calculate_performance_metrics(w[1], w[2])
           /\ ~result'.raised)
          => Counts(Cardinality(HalfOpen(logFile, w[1], w[2])))']_vars

\* the labelled records stamped from start_time to end_time, both included
Closed(file, start_time, end_time) ==
    {i \in 1..Len(file) :
        /\ IsLabelled(file, i)
        /\ start_time # NoTime => TimeOf(file, i) >= start_time
        /\ end_time # NoTime => TimeOf(file, i) <= end_time}

\* C13: a call of calculate_performance_metrics that finds no labelled
\* record from start_time to end_time (the log file is missing, or holds
\* only unlabelled records, or only records stamped outside) returns the
\* empty result, raises nothing and leaves the metrics history as it was.
\* Records stamped exactly end_time are C12's subject and count as inside
\* here.
C13_NothingLabelledGivesEmpty ==
    [][\A w \in Windows :
          (/\ result'.args = w
           /\ ~logExists \/ Closed(logFile, w[1], w[2]) = {}
           /\ monitor_calculate_performance_metrics(w[1], w[2]))
          => /\ result'.value = <<>>
             /\ ~result'.raised
             /\ metricsFile' = metricsFile]_vars

\* C13 witness: a call over a log that holds records, none of them
\* labelled, has just returned the empty result with its warning.
C13_Witness ==
    /\ result.call = "calculate_performance_metrics"
    /\ result.value = <<>>
    /\ ~result.raised
    /\ LastMessage("No labeled data found")
    /\ Len(logFile) > 0
    /\ \A i \in 1..Len(logFile) : ~IsLabelled(logFile, i)

\* the number a snapshot holds under `key`
Number(snapshot, key) == DictGet(snapshot, key)[1]

\* C14: every non-empty snapshot calculate_performance_metrics returns
\* holds accuracy, precision, recall, f1, tp, tn, fp, fn and count, and its
\* tp + tn + fp + fn equals its count.
C14_SnapshotHoldsConfusionCounts ==
    (result.call = "calculate_performance_metrics" /\ result.value # <<>>)
    => /\ \A key \in {"accuracy", "precision", "recall", "f1",
                       "tp", "tn", "fp", "fn", "count"} :
             DictHas(result.value, key)
       /\ Number(result.value, "tp") + Number(result.value, "tn")
            + Number(result.value, "fp") + Number(result.value, "fn")
          = Number(result.value, "count")

\* C16 as stated: every call of calculate_performance_metrics adds exactly
\* one snapshot at the end of the metrics history and leaves the earlier
\* ones unchanged.
C16_EveryCallAppendsOne ==
    [][\A w \in Windows :
          (result'.args = w /\ monitor_calculate_performance_metrics(w[1], w[2]))
          => /\ Len(metricsFile') = Len(metricsFile) + 1
             /\ SubSeq(metricsFile', 1, Len(metricsFile)) = metricsFile]_vars

\* C16 amended: every call of calculate_performance_metrics leaves the
\* earlier snapshots unchanged; a call that finds a labelled record in its
\* window adds exactly one snapshot at the end, which is the snapshot it
\* returns when it returns one; a call that returns the empty result
\* without having found one adds nothing.
C16_AppendOnlyOnePerSnapshot ==
    [][\A w \in Windows :
          (result'.args = w /\ monitor_calculate_performance_metrics(w[1], w[2]))
          => /\ SubSeq(metricsFile', 1, Len(metricsFile)) = metricsFile
             /\ IF /\ config.enable_monitoring
                   /\ logExists
                   /\ Closed(logFile, w[1], w[2]) # {}
                THEN /\ Len(metricsFile') = Len(metricsFile) + 1
                     /\ result'.value # <<>>
                        => metricsFile'[Len(metricsFile')] = result'.value
                ELSE /\ metricsFile' = metricsFile
                     /\ result'.value = <<>>]_vars

\* C16 witness: the history holds two snapshots, the second of which the
\* call that has just returned added behind the first.
C16_Witness ==
    /\ result.call = "calculate_performance_metrics"
    /\ result.value # <<>>
    /\ Len(metricsFile) = 2
    /\ metricsFile[2] = result.value
    /\ metricsFile[1] # metricsFile[2]
    /\ LastMessage("Calculated performance metrics")

\* the metric names of the advisories the call has just logged
Advised ==
    IF LastMessage("Performance alerts")
    THEN {logger[Len(logger)][3][k] : k \in 1..Len(logger[Len(logger)][3])}
    ELSE {}

\* C17: for a snapshot with numeric values, _check_metric_alerts produces
\* an advisory for a configured (metric, threshold) pair if and only if the
\* metric is present in the snapshot and its value is strictly below the
\* threshold; a value equal to the threshold, or an absent metric, produces
\* none.
C17_AdvisoryIffStrictlyBelow ==
    (/\ result.call = "calculate_performance_metrics"
     /\ result.value # <<>>
     /\ logger # <<>>)
    => \A k \in 1..Len(config.alert_threshold) :
          LET metric == config.alert_threshold[k][1]
              threshold == config.alert_threshold[k][2]
          IN  metric \in Advised
              <=> /\ DictHas(result.value, metric)
                  /\ DictGet(result.value, metric)[1] * threshold[2]
                       < threshold[1] * DictGet(result.value, metric)[2]

\* C17 witness: with thresholds accuracy 0.5, auc 0.8 and count 2, a call
\* has returned a snapshot whose accuracy is exactly 0.5 and whose count is
\* exactly 2, and no advisory was logged.
C17_Witness ==
    /\ result.call = "calculate_performance_metrics"
    /\ result.value # <<>>
    /\ DictHas(config.alert_threshold, "auc")
    /\ DictGet(result.value, "accuracy") = <<1, 2>>
    /\ DictGet(result.value, "count") = <<2, 1>>
    /\ LastMessage("Calculated performance metrics")

\* C18: whatever metric names the configured threshold map lists, count
\* and timestamp included, the alert evaluation at the end of
\* calculate_performance_metrics raises nothing: no call of
\* calculate_performance_metrics ends in an exception.
C18_AlertsNeverRaise ==
    result.call = "calculate_performance_metrics" => ~result.raised

\* C15: for a non-empty labelled dataset on which the model predicts no
\* positive, the evaluation raises nothing and answers precision = 0,
\* recall = 0, f1 = 0, tp = 0, fp = 0, tn = the number of rows with true
\* label 0, fn = the number of rows with true label 1, and accuracy =
\* tn / count.
C15_NoPositivePredictionIsDefined ==
    (/\ result.call = "evaluate"
     /\ \A i \in 1..Len(result.args[2]) : result.args[2][i] = 0)
    => LET y_true == result.args[1]
           zeros == Cardinality({i \in 1..Len(y_true) : y_true[i] = 0})
           ones == Cardinality({i \in 1..Len(y_true) : y_true[i] = 1})
       IN  /\ ~result.raised
           /\ Number(result.value, "precision") = 0
           /\ Number(result.value, "recall") = 0
           /\ Number(result.value, "f1") = 0
           /\ Number(result.value, "tp") = 0
           /\ Number(result.value, "fp") = 0
           /\ Number(result.value, "tn") = zeros
           /\ Number(result.value, "fn") = ones
           /\ Number(result.value, "accuracy") * Len(y_true)
              = zeros * DictGet(result.value, "accuracy")[2]

\* the feature entries of a drift report
EntriesOf(report) == DictGet(report, "features")

\* C19: in every report detect_data_drift builds, and so in every report
\* it returns, overall_drift is true if and only if at least one feature
\* entry of the report has drift_detected = true; a report without a
\* feature entry has overall_drift = false; a returned report is the
\* report built.
C19_OverallDriftIffSomeFeatureDrifted ==
    (result.call = "detect_data_drift" /\ result.local # <<>>)
    => /\ DictGet(result.local, "overall_drift")
          <=> \E i \in 1..Len(EntriesOf(result.local)) :
                 DictGet(EntriesOf(result.local)[i][2], "drift_detected")
       /\ EntriesOf(result.local) = <<>> => ~DictGet(result.local, "overall_drift")
       /\ ~result.raised => result.value = result.local

\* C19 witness: a call that named features and skipped them all has
\* returned its report, which has no feature entry and overall_drift
\* false, and has appended it to the drift history.
C19_Witness ==
    /\ result.call = "detect_data_drift"
    /\ ~result.raised
    /\ result.value # <<>>
    /\ result.args[3] # <<>>
    /\ EntriesOf(result.value) = <<>>
    /\ ~DictGet(result.value, "overall_drift")
    /\ driftFile.state = "list"
    /\ driftFile.entries[Len(driftFile.entries)] = result.value

\* C20: a call of detect_data_drift (drift detection enabled) raises
\* nothing, and its report holds no entry for a named feature that is
\* absent from either dataset, non-numeric in either or entirely missing
\* in either, and exactly one entry for every other named feature.
C20_SkippedOrExactlyOneEntry ==
    (result.call = "detect_data_drift" /\ config.drift_detection)
    => /\ ~result.raised
       /\ \A k \in 1..Len(result.args[3]) :
             Cardinality({i \in 1..Len(EntriesOf(result.value)) :
                             EntriesOf(result.value)[i][1] = result.args[3][k]})
             = IF Examined(result.args[1], result.args[2], result.args[3][k])
               THEN 1 ELSE 0

\* C21: every call of detect_data_drift (drift detection enabled) returns
\* a report and leaves the drift history a readable list that is the
\* history as it was, every earlier entry unchanged, followed by the
\* report returned.
C21_DriftHistoryAppendOnly ==
    [][(/\ now' = now
        /\ config.drift_detection
        /\ result'.call = "detect_data_drift")
       => /\ ~result'.raised
          /\ driftFile'.state = "list"
          /\ driftFile'.entries = Append(driftFile.entries, result'.value)]_vars

\* the row a well-formed line i of the log stands for
RowOf(file, i) ==
    << <<"prediction_id", IdOf(file, i)>>,
       <<"timestamp", TimeOf(file, i)>>,
       <<"prediction", Field(file, i, "prediction")>>,
       <<"probability", Field(file, i, "probability")>>,
       <<"true_label", Field(file, i, "true_label")>> >>

\* how often `row` occurs among rows
Occurs(rows, row) == Cardinality({k \in 1..Len(rows) : rows[k] = row})

\* the rows returned are those of the records in `inside`, newest first,
\* cut to `limit` from the oldest end
RecentOf(file, inside, limit, rows) ==
    /\ Len(rows) = IF Cardinality(inside) < limit THEN Cardinality(inside) ELSE limit
    /\ \A k \in 1..Len(rows) : \E i \in inside : rows[k] = RowOf(file, i)
    /\ \A i \in inside :
          Occurs(rows, RowOf(file, i))
          <= Cardinality({j \in inside : RowOf(file, j) = RowOf(file, i)})
    /\ \A k, l \in 1..Len(rows) :
          k < l => DictGet(rows[k], "timestamp") >= DictGet(rows[l], "timestamp")
    /\ \A i \in inside :
          Occurs(rows, RowOf(file, i))
             < Cardinality({j \in inside : RowOf(file, j) = RowOf(file, i)})
          => \A k \in 1..Len(rows) : DictGet(rows[k], "timestamp") >= TimeOf(file, i)

\* C22: over a log of well-formed lines, get_recent_predictions(hours,
\* limit) with limit >= 0 returns rows of exactly the records stamped at or
\* after now - hours, newest first, cut to the first limit: no older record
\* is returned, at most limit rows are returned, and a record inside the
\* window is left out only when the limit cuts it, in which case no
\* returned row is older than it.
C22_RecentNewestFirstWithinLimit ==
    [][\A hours \in Hours, limit \in Limits :
          (/\ result'.call = "get_recent_predictions"
           /\ result'.args = <<hours, limit>>
           /\ logExists
           /\ \A i \in 1..Len(logFile) : ~loads_raises(logFile[i])
           /\ monitor_get_recent_predictions(hours, limit))
          => /\ ~result'.raised
             /\ RecentOf(logFile,
                         {i \in 1..Len(logFile) : TimeOf(logFile, i) >= now - hours},
                         limit, result'.value)]_vars

\* C22 witness: at time 1, get_recent_predictions(1, 1) over a log with a
\* record stamped 0 followed by a record stamped 1 has returned one row,
\* that of the record stamped 1.
C22_Witness ==
    /\ now = 1
    /\ result.call = "get_recent_predictions"
    /\ result.args = <<1, 1>>
    /\ ~result.raised
    /\ Len(logFile) = 2
    /\ ~loads_raises(logFile[1]) /\ ~loads_raises(logFile[2])
    /\ TimeOf(logFile, 1) = 0
    /\ TimeOf(logFile, 2) = 1
    /\ result.value = <<RowOf(logFile, 2)>>

\* the lines of the log json.loads accepts
Sound(file) == {i \in 1..Len(file) : ~loads_raises(file[i])}

\* C23: with a malformed line among well-formed ones in the log, each of
\* calculate_performance_metrics, get_recent_predictions and
\* extract_predictions_for_monitoring completes without an exception and
\* reports on all the well-formed records: the metrics count every
\* labelled one, the recent predictions are those of the well-formed
\* records in the window, the extracted predictions have one row per
\* well-formed record.
C23_ReadersSkipMalformedLines ==
    [][(/\ logFile' = logFile
        /\ now' = now
        /\ Sound(logFile) # {}
        /\ Sound(logFile) # 1..Len(logFile)
        /\ result'.call \in {"calculate_performance_metrics", "get_recent_predictions",
                             "extract_predictions_for_monitoring"}
        /\ NextScan)
       => /\ ~result'.raised
          /\ result'.call = "calculate_performance_metrics"
             => Counts(Cardinality({i \in Sound(logFile) : IsLabelled(logFile, i)}))'
          /\ result'.call = "get_recent_predictions"
             => RecentOf(logFile,
                         {i \in Sound(logFile) : TimeOf(logFile, i) >= now - 1},
                         MaxLimit, result'.value)
          /\ result'.call = "extract_predictions_for_monitoring"
             => /\ Len(result'.value[1]) = Cardinality(Sound(logFile))
                /\ \A i \in Sound(logFile) : Occurs(result'.value[1], RowOf(logFile, i)) > 0]_vars

\* the call names no ID column the table has
NoIdColumn(b) ==
    \/ b.id_col = NoCol
    \/ \A k \in 1..Len(b.predictions_df) : ~DictHas(b.predictions_df[k], b.id_col)

\* C24: log_batch_predictions (monitoring enabled) on a table of N rows
\* without an ID column appends exactly N records behind the records the
\* log held, record k carrying the prediction and the features of row k,
\* and the prediction_ids of the N records are pairwise distinct.
C24_BatchAppendsOnePerRowDistinctIds ==
    [][\A b \in BatchTables :
          (/\ config.enable_monitoring
           /\ NoIdColumn(b)
           /\ FirstMessage("Logged predictions")'
           /\ log_batch_predictions(b.predictions_df, b.features_cols, b.prediction_col,
                                    b.probability_col, b.true_label_col, b.id_col))
          => LET n == Len(logFile) IN
             /\ Len(logFile') = n + Len(b.predictions_df)
             /\ SubSeq(logFile', 1, n) = logFile
             /\ \A k \in 1..Len(b.predictions_df) :
                   /\ Field(logFile', n + k, "prediction").n
                      = DictGet(b.predictions_df[k], "prediction").n
                   /\ DictGet(Field(logFile', n + k, "features").d, "amount").n
                      = DictGet(b.predictions_df[k], "amount").n
             /\ \A k, l \in 1..Len(b.predictions_df) :
                   k # l => IdOf(logFile', n + k) # IdOf(logFile', n + l)]_vars

\* C24 witness: a batch of two rows without an ID column has just been
\* logged into an empty log, which now holds two records with the
\* generated ids of rows 0 and 1.
C24_Witness ==
    /\ FirstMessage("Logged predictions")
    /\ Len(logFile) = 2
    /\ IdOf(logFile, 1) = PyStr(Str("pred", 0, 0))
    /\ IdOf(logFile, 2) = PyStr(Str("pred", 0, 1))
    /\ Field(logFile, 1, "prediction") # Field(logFile, 2, "prediction")

\* C25: generated batch ids repeat across batches of one date: when the
\* log holds a record with the generated id of row j of today's date, a
\* log_batch_predictions call without an ID column on a table of more than
\* j rows numbers its rows from zero again, gives its row j that same id,
\* and the log then holds both records.
C25_GeneratedIdsRepeatAcrossBatches ==
    [][\A b \in BatchTables :
          (/\ config.enable_monitoring
           /\ NoIdColumn(b)
           /\ FirstMessage("Logged predictions")'
           /\ log_batch_predictions(b.predictions_df, b.features_cols, b.prediction_col,
                                    b.probability_col, b.true_label_col, b.id_col))
          => \A i \in 1..Len(logFile), j \in 0..(Len(b.predictions_df) - 1) :
                IdOf(logFile, i) = PyStr(Str("pred", strftime_Ymd(now), j))
                => /\ Len(logFile') = Len(logFile) + Len(b.predictions_df)
                   /\ IdOf(logFile', i) = IdOf(logFile, i)
                   /\ IdOf(logFile', Len(logFile) + j + 1) = IdOf(logFile, i)]_vars

\* C25 witness: two batches without an ID column were logged at different
\* times of one date, and the log holds two records with the generated id
\* of row 0.
C25_Witness ==
    /\ FirstMessage("Logged predictions")
    /\ Len(logFile) = 2
    /\ IdOf(logFile, 1) = PyStr(Str("pred", 0, 0))
    /\ IdOf(logFile, 2) = PyStr(Str("pred", 0, 0))
    /\ TimeOf(logFile, 1) < TimeOf(logFile, 2)
    /\ strftime_Ymd(TimeOf(logFile, 1)) = strftime_Ymd(TimeOf(logFile, 2))

\* C29: POST /feedback while the prediction log file does not exist is
\* answered with status 404, and no process_feedback task is scheduled.
C29_FeedbackWithoutLogIs404 ==
    [][\A id \in RequestIds, label \in Labels :
          (/\ config.enable_monitoring
           /\ ~logExists
           /\ prediction_feedback(id, label))
          => /\ response'.status = 404
             /\ tasks' = tasks]_vars

\* C26: a GET /metrics that reads the prediction log while a
\* process_feedback task is rewriting it (the task has opened the log for
\* writing and has not yet written its lines back) finds a complete log:
\* no empty log and no fewer lines than the task read and is writing back.
C26_ReaderSeesCompleteLog ==
    [][(/\ config.enable_monitoring
        /\ \E i \in 1..Len(tasks) :
              /\ tasks[i].kind = "process_feedback"
              /\ tasks[i].pc = "write"
              /\ tasks[i].logs # <<>>
        /\ get_metrics)
       => /\ result'.local # <<>>
          /\ \A i \in 1..Len(tasks) :
                (tasks[i].kind = "process_feedback" /\ tasks[i].pc = "write")
                => Len(result'.local) >= Len(tasks[i].logs)]_vars

\* C27: process_feedback on a log that holds a malformed line fails while
\* it reads: it logs its error and leaves the log file, line for line, and
\* the metrics history exactly as they were.
C27_MalformedLineStopsFeedbackBeforeRewrite ==
    [][\A f \in FeedbackInputs :
          (/\ logExists
           /\ Sound(logFile) # 1..Len(logFile)
           /\ process_feedback(f.prediction_id, f.actual_label))
          => /\ logFile' = logFile
             /\ metricsFile' = metricsFile
             /\ logger' = << <<"error", "Error processing feedback", <<>> >> >>]_vars

\* C27 witness: feedback for "txn1" has just failed on a log whose first
\* line is the record "txn1", still without a label, and whose second line
\* is malformed.
C27_Witness ==
    /\ FirstMessage("Error processing feedback")
    /\ Len(logFile) = 2
    /\ ~loads_raises(logFile[1])
    /\ IdOf(logFile, 1) = PyStr(Str("txn", 1, 0))
    /\ Field(logFile, 1, "true_label") = PyNone
    /\ loads_raises(logFile[2])

\* the labelled records of a log with well-formed lines
AllLabelled(file) == {i \in 1..Len(file) : IsLabelled(file, i)}

\* C28: process_feedback computes metrics only for feedback that matched a
\* record, and then from the log as rewritten: feedback for a
\* prediction_id the log does not hold, feedback that fails on a malformed
\* line, and feedback with performance_tracking off leave the metrics
\* history as it was; matched feedback with
\* performance_tracking on adds one snapshot, whose count is the number of
\* labelled records of the rewritten log, the record just labelled among
\* them.
C28_MetricsFollowTheRewrite ==
    [][\A f \in FeedbackInputs :
          (/\ logExists
           /\ logger' # <<>>
           /\ logger'[1][2] # "Logged predictions"
           /\ process_feedback(f.prediction_id, f.actual_label))
          => IF /\ Sound(logFile) = 1..Len(logFile)
                /\ HasId(logFile, f.prediction_id)
                /\ config.performance_tracking
             THEN /\ Len(metricsFile') = Len(metricsFile) + 1
                  /\ SubSeq(metricsFile', 1, Len(metricsFile)) = metricsFile
                  /\ Number(metricsFile'[Len(metricsFile')], "count")
                        = Cardinality(AllLabelled(logFile'))
                  /\ \E i \in AllLabelled(logFile') :
                        /\ IdOf(logFile', i) = PyStr(f.prediction_id)
                        /\ Field(logFile', i, "true_label") = PyInt(f.actual_label)
             ELSE metricsFile' = metricsFile]_vars

\* C28 witness: feedback has just labelled the second of two records, the
\* first of which was written with its label, and the one snapshot in the
\* history counts both.
C28_Witness ==
    /\ FirstMessage("Updated prediction log with feedback")
    /\ Len(logFile) = 2
    /\ AllLabelled(logFile) = {1, 2}
    /\ Len(metricsFile) = 1
    /\ Number(metricsFile[1], "count") = 2


----------------------------------------------------------------------------
(* api.check_drift, GET /drift (SpecDriftCheck).                           *)

\* get_recent_predictions(hours, limit=1000)
limit_default == 1000

\* model.feature_names as the endpoint may find it
FeatureNames == { <<>>, <<"amount">>, <<"feature1", "feature2">> }

\* One request.  feature_names is model.feature_names, reference whether
\* reference_data.parquet exists.  `local` of the result is the rows
\* get_recent_predictions(hours=24) returned.  ModelMonitor has no
\* attribute extract_predictions_for_monitoring (the function of that name
\* is defined at module level), so the lookup at line 429 raises
\* AttributeError, which the handler's except turns into a 500.
check_drift(feature_names, reference) ==
    /\ IF ~config.enable_monitoring
       THEN /\ response' = [status |-> 503, detail |-> "Model monitor not initialized",
                            prediction_id |-> NoStr]
            /\ logger' = <<>>
            /\ UNCHANGED result
       ELSE \E recent \in {get_recent_predictions(logExists, logFile, DayLength,
                                                  limit_default, now)} :
               LET body == IF recent.raised THEN "raised"
                           ELSE IF recent.rows = <<>> THEN "no_data"
                           ELSE IF feature_names = <<>> \/ ~reference THEN "error"
                           ELSE "raised"
               IN  /\ logger' = recent.logged
                                 \o IF body = "raised"
                                    THEN << <<"error", "Error checking drift", <<>> >> >>
                                    ELSE <<>>
                   /\ response' = IF body = "raised"
                                  THEN [status |-> 500, detail |-> "Error checking drift",
                                        prediction_id |-> NoStr]
                                  ELSE [status |-> 200, detail |-> body,
                                        prediction_id |-> NoStr]
                   /\ result' = [call |-> "check_drift",
                                 args |-> <<feature_names, reference>>,
                                 raised |-> body = "raised", value |-> <<>>,
                                 local |-> recent.rows]
    /\ UNCHANGED <<now, config, driftFile, logExists, logFile, metricsFile,
                   uuids, tasks, appended, acked>>

NextDriftCheck ==
    \/ Tick
    \/ \E a \in LogPredictionInputs :
          log_prediction(a.prediction_id, a.features, a.prediction,
                         a.probability, a.true_label, a.metadata)
    \/ \E feature_names \in FeatureNames, reference \in BOOLEAN :
          check_drift(feature_names, reference)

SpecDriftCheck == Init /\ [][NextDriftCheck]_vars

\* C30: a GET /drift that finds predictions of the last 24 hours in the
\* log, a model with feature names and the reference data file does not
\* end in an error response: it answers 200 with status success (and the
\* overall_drift verdict of the report detect_data_drift built).
C30_DriftCheckSucceeds ==
    (/\ result.call = "check_drift"
     /\ result.local # <<>>
     /\ result.args[1] # <<>>
     /\ result.args[2])
    => /\ ~result.raised
       /\ response.status = 200
       /\ response.detail = "success"

====
